---- MODULE Spec2Model ----
(***************************************************************************)
(* The distributed file system of S1.c (dispatcher), S2.c / S3.c / S4.c    *)
(* (type-specific backends).  Strings are sequences of one-character       *)
(* strings, so that strrchr, strncmp, strcmp, atol and snprintf("%ld")     *)
(* are computed the way the C code computes them.  All four tiers live in  *)
(* one filesystem under $HOME, as they do on the single host the servers   *)
(* run on.                                                                 *)
(***************************************************************************)
EXTENDS Integers, Sequences, FiniteSets, TLC

VARIABLES fs, acked, last, faults, workers

vars == <<fs, acked, last, faults, workers>>

(***************************************************************************)
(* Bounds of the model.                                                    *)
(***************************************************************************)
MaxSize == 1
MaxFiles == 2
MaxFaults == 1

(***************************************************************************)
(* C strings.                                                              *)
(***************************************************************************)
SLASH == "/"
DOT == "."
NL == "\n"
SP == " "

\* ASCII codes of the characters the inputs are made of (strcmp compares them).
AsciiTable ==
  (NL :> 10) @@ (" " :> 32) @@ ("-" :> 45) @@ ("." :> 46) @@ ("/" :> 47) @@
  ("0" :> 48) @@ ("1" :> 49) @@ ("2" :> 50) @@ ("3" :> 51) @@ ("4" :> 52) @@
  ("5" :> 53) @@ ("6" :> 54) @@ ("7" :> 55) @@ ("8" :> 56) @@ ("9" :> 57) @@
  ("S" :> 83) @@
  ("a" :> 97) @@ ("b" :> 98) @@ ("c" :> 99) @@ ("d" :> 100) @@ ("e" :> 101) @@
  ("f" :> 102) @@ ("h" :> 104) @@ ("i" :> 105) @@ ("l" :> 108) @@ ("m" :> 109) @@
  ("n" :> 110) @@ ("o" :> 111) @@ ("p" :> 112) @@ ("r" :> 114) @@ ("s" :> 115) @@
  ("t" :> 116) @@ ("u" :> 117) @@ ("v" :> 118) @@ ("w" :> 119) @@ ("x" :> 120) @@
  ("z" :> 122) @@ ("~" :> 126)
Ascii(c) == IF c \in DOMAIN AsciiTable THEN AsciiTable[c] ELSE 127

Min(a, b) == IF a < b THEN a ELSE b

\* strcmp(a, b): negative, zero or positive.
RECURSIVE strcmp(_, _)
strcmp(a, b) ==
  IF a = b THEN 0
  ELSE IF a = <<>> THEN -1
  ELSE IF b = <<>> THEN 1
  ELSE IF Ascii(Head(a)) # Ascii(Head(b)) THEN Ascii(Head(a)) - Ascii(Head(b))
  ELSE strcmp(Tail(a), Tail(b))

\* strncmp(s, prefix, strlen(prefix)) == 0
HasPrefix(s, prefix) ==
  /\ Len(s) >= Len(prefix)
  /\ SubSeq(s, 1, Len(prefix)) = prefix

\* Index of the last occurrence of c in s, 0 when there is none.
LastIndexOf(s, c) ==
  LET at == {i \in 1..Len(s) : s[i] = c}
  IN  IF at = {} THEN 0 ELSE CHOOSE i \in at : \A j \in at : j <= i

\* strrchr(s, c): the suffix of s from the last c on; <<>> stands for NULL
\* (a found suffix is never empty, it starts with c).
strrchr(s, c) ==
  LET i == LastIndexOf(s, c)
  IN  IF i = 0 THEN <<>> ELSE SubSeq(s, i, Len(s))

\* *strrchr(s, '/') = '\0': s cut before its last slash.
CutAtLastSlash(s) == SubSeq(s, 1, LastIndexOf(s, SLASH) - 1)

\* strtok / strtok_r / path lookup: the non-empty runs of s between
\* separators, scanned from position i with the run cur under way.
RECURSIVE TokensFrom(_, _, _, _, _)
TokensFrom(s, sep, i, cur, acc) ==
  IF i > Len(s) THEN (IF cur = <<>> THEN acc ELSE Append(acc, cur))
  ELSE IF s[i] = sep
       THEN TokensFrom(s, sep, i + 1, <<>>, IF cur = <<>> THEN acc ELSE Append(acc, cur))
       ELSE TokensFrom(s, sep, i + 1, Append(cur, s[i]), acc)

Tokens(s, sep) == TokensFrom(s, sep, 1, <<>>, <<>>)

Digit(d) == CASE d = 0 -> "0" [] d = 1 -> "1" [] d = 2 -> "2" [] d = 3 -> "3"
              [] d = 4 -> "4" [] d = 5 -> "5" [] d = 6 -> "6" [] d = 7 -> "7"
              [] d = 8 -> "8" [] d = 9 -> "9"

IsDigit(c) == c \in {"0", "1", "2", "3", "4", "5", "6", "7", "8", "9"}

\* snprintf(buf, n, "%ld", v) for v >= 0: the decimal digits of v.
RECURSIVE ToDec(_)
ToDec(v) == IF v < 10 THEN <<Digit(v)>> ELSE ToDec(v \div 10) \o <<Digit(v % 10)>>

\* atol(s): the value of the leading decimal digits of s after an optional
\* minus sign, 0 when there are none.
RECURSIVE AtolFrom(_, _)
AtolFrom(s, acc) ==
  IF s = <<>> \/ ~IsDigit(Head(s)) THEN acc
  ELSE AtolFrom(Tail(s), 10 * acc + (Ascii(Head(s)) - 48))

atol(s) ==
  IF s # <<>> /\ Head(s) = "-" THEN 0 - AtolFrom(Tail(s), 0) ELSE AtolFrom(s, 0)

\* Index of the first occurrence of c in s, 0 when there is none.
FirstIndexOf(s, c) ==
  LET at == {i \in 1..Len(s) : s[i] = c}
  IN  IF at = {} THEN 0 ELSE CHOOSE i \in at : \A j \in at : i <= j

\* s without its leading spaces: while (*s == ' ') s++;
RECURSIVE SkipSpaces(_)
SkipSpaces(s) == IF s # <<>> /\ Head(s) = SP THEN SkipSpaces(Tail(s)) ELSE s

(***************************************************************************)
(* Tiers.                                                                  *)
(***************************************************************************)
HOME == <<"/", "h">>
S1 == <<"S", "1">>
S2 == <<"S", "2">>
S3 == <<"S", "3">>
S4 == <<"S", "4">>
Backends == {S2, S3, S4}
Tiers == {S1} \cup Backends

\* snprintf(basePath, ..., "%s/S1", homeDir) and its baseDir counterparts.
BasePath(tier) == HOME \o <<SLASH>> \o tier
\* The alias "~S1" / "~S2" / "~S3" / "~S4" a tier strips from a path.
Alias(tier) == <<"~">> \o tier

EXT_C == <<".", "c">>
EXT_PDF == <<".", "p", "d", "f">>
EXT_TXT == <<".", "t", "x", "t">>
EXT_ZIP == <<".", "z", "i", "p">>

(***************************************************************************)
(* The names and paths the clients use.                                    *)
(***************************************************************************)
a_c == <<"a", ".", "c">>
hidden_c == <<".", "b", ".", "c">>
a_pdf == <<"a", ".", "p", "d", "f">>
hidden_pdf == <<".", "h", ".", "p", "d", "f">>
notes_txt == <<"n", "o", "t", "e", "s", ".", "t", "x", "t">>
a_zip == <<"a", ".", "z", "i", "p">>
\* A name without an extension and one with an extension no tier owns.
readme == <<"r", "e", "a", "d", "m", "e">>
a_exe == <<"a", ".", "e", "x", "e">>

docs == <<"d", "o", "c", "s">>
sub == <<"s", "u", "b">>
V_ROOT == Alias(S1)
V_DOCS == Alias(S1) \o <<SLASH>> \o docs
V_SUB == V_DOCS \o <<SLASH>> \o sub
\* The directories dispfnames is asked about.
VDirs == {V_ROOT, V_DOCS, V_SUB}
\* The uploads clients make: a file name and a destination directory (one
\* of them written with a trailing slash).
Uploads ==
  {<<a_c, V_DOCS \o <<SLASH>>>>, <<hidden_c, V_DOCS>>,
   <<a_pdf, V_ROOT>>, <<hidden_pdf, V_ROOT>>,
   <<notes_txt, V_DOCS>>, <<notes_txt, V_SUB>>,
   <<a_zip, V_ROOT>>, <<readme, V_ROOT>>, <<a_exe, V_ROOT>>}
\* The file paths downlf and removef are asked about.
VPaths ==
  {V_DOCS \o <<SLASH>> \o a_c, V_DOCS \o <<SLASH>> \o hidden_c,
   V_ROOT \o <<SLASH>> \o a_pdf, V_ROOT \o <<SLASH>> \o hidden_pdf,
   V_DOCS \o <<SLASH>> \o notes_txt, V_SUB \o <<SLASH>> \o notes_txt,
   V_ROOT \o <<SLASH>> \o a_zip}
FileTypes == {EXT_C, EXT_PDF, EXT_TXT, EXT_ZIP}

(***************************************************************************)
(* The filesystem the four servers share.  A location is the sequence of   *)
(* the names on the way to it from "/"; fs.dirs is the set of directories  *)
(* and fs.files maps each regular file to its bytes.                       *)
(***************************************************************************)
\* Path lookup of a C path string: empty components and "." are skipped.
Lookup(str) == SelectSeq(Tokens(str, SLASH), LAMBDA c : c # <<DOT>>)

\* The string can only name a directory (trailing slash or trailing ".").
EndsInDot(str) ==
  /\ str # <<>>
  /\ str[Len(str)] = DOT
  /\ Len(str) = 1 \/ str[Len(str) - 1] = SLASH
NamesDir(str) == str # <<>> /\ (str[Len(str)] = SLASH \/ EndsInDot(str))

Parent(p) == SubSeq(p, 1, Len(p) - 1)
IsDir(f, p) == p \in f.dirs
IsFile(f, p) == p \in DOMAIN f.files
Children(f, p) ==
  {q \in f.dirs \cup DOMAIN f.files : Len(q) = Len(p) + 1 /\ Parent(q) = p}

\* What the system calls check and do at the location a path leads to.
CanMkdir(f, p) == p # <<>> /\ ~IsDir(f, p) /\ ~IsFile(f, p) /\ IsDir(f, Parent(p))
CanRmdir(f, p) == p # <<>> /\ IsDir(f, p) /\ Children(f, p) = {}
CanCreate(f, p) == p # <<>> /\ ~IsDir(f, p) /\ IsDir(f, Parent(p))
WithDir(f, p) == [f EXCEPT !.dirs = @ \cup {p}]
WithoutDir(f, p) == [f EXCEPT !.dirs = @ \ {p}]
WithFile(f, p, bytes) ==
  [f EXCEPT !.files = [q \in (DOMAIN @) \cup {p} |-> IF q = p THEN bytes ELSE @[q]]]
WithoutFile(f, p) == [f EXCEPT !.files = [q \in (DOMAIN @) \ {p} |-> @[q]]]

\* stat(str, &st) == 0, and S_ISDIR(st.st_mode)
stat_ok(f, str) ==
  LET p == Lookup(str)
  IN  IsDir(f, p) \/ (IsFile(f, p) /\ ~NamesDir(str))
S_ISDIR(f, str) == IsDir(f, Lookup(str))

mkdir(f, str) ==
  LET p == Lookup(str)
  IN  IF CanMkdir(f, p) THEN WithDir(f, p) ELSE f

rmdir_ok(f, str) == ~EndsInDot(str) /\ CanRmdir(f, Lookup(str))
rmdir(f, str) ==
  LET p == Lookup(str)
  IN  IF ~EndsInDot(str) /\ CanRmdir(f, p) THEN WithoutDir(f, p) ELSE f

\* An unlink that would take the other files of the directory along.
UnlinkAll(f, str) ==
  LET p == Lookup(str)
  IN  IF ~NamesDir(str) /\ IsFile(f, p)
      THEN [f EXCEPT !.files = [q \in {q \in DOMAIN @ : Parent(q) # Parent(p)} |-> @[q]]]
      ELSE f

unlink_ok(f, str) == ~NamesDir(str) /\ IsFile(f, Lookup(str))
unlink(f, str) ==
  LET p == Lookup(str)
  IN  IF ~NamesDir(str) /\ IsFile(f, p) THEN WithoutFile(f, p) ELSE f

\* remove(3): unlink for a file, rmdir for a directory.
remove(f, str) ==
  LET p == Lookup(str)
  IN  IF ~NamesDir(str) /\ IsFile(f, p) THEN WithoutFile(f, p)
      ELSE IF ~EndsInDot(str) /\ CanRmdir(f, p) THEN WithoutDir(f, p)
      ELSE f

\* fopen(str, "wb"): creates or truncates the file; fails when the parent
\* directory is missing or the path is a directory.
fopen_wb_ok(f, str) == ~NamesDir(str) /\ CanCreate(f, Lookup(str))
fopen_wb(f, str) ==
  LET p == Lookup(str)
  IN  IF ~NamesDir(str) /\ CanCreate(f, p) THEN WithFile(f, p, <<>>) ELSE f

\* fwrite of data at the end of the file opened at str.
fwrite(f, str, data) ==
  LET p == Lookup(str)
  IN  IF IsFile(f, p) THEN WithFile(f, p, f.files[p] \o data) ELSE f

\* fopen(str, "rb") and the bytes fread then returns.  (No input of the
\* model names a directory with a file extension, so the read of a
\* directory does not arise.)
fopen_rb_ok(f, str) == ~NamesDir(str) /\ IsFile(f, Lookup(str))
fread(f, str) == f.files[Lookup(str)]

\* opendir / readdir: the entries of a directory with their d_type.
opendir_ok(f, str) == IsDir(f, Lookup(str))
readdir(f, str) ==
  {[d_name |-> q[Len(q)], d_type |-> IF IsFile(f, q) THEN "DT_REG" ELSE "DT_DIR"] :
     q \in Children(f, Lookup(str))}

\* The orders in which readdir may return the entries e (unspecified by POSIX).
Orders(e) ==
  LET n == Cardinality(e)
  IN  {o \in [1..n -> e] : \A i, j \in 1..n : o[i] = o[j] => i = j}

\* Location of a tier's root, and of a tier-relative location in it.
Root(tier) == Lookup(BasePath(tier))
UnderRoot(tier, p) == Len(p) > Len(Root(tier)) /\ SubSeq(p, 1, Len(Root(tier))) = Root(tier)

(***************************************************************************)
(* Protocol lines.  A line is a string without its final newline.  The     *)
(* characters the code inspects (strncmp with "ERROR" / "SUCCESS", atol)   *)
(* are spelled out; the rest of a message is one opaque element.           *)
(***************************************************************************)
L_ERROR == <<"E", "R", "R", "O", "R">>
L_SUCCESS == <<"S", "U", "C", "C", "E", "S", "S">>
Err(text) == L_ERROR \o <<":", text>>
Succ(text) == L_SUCCESS \o <<":", text>>
\* A not-found line that would lack the ERROR: marker.
NotFoundPlain == <<"File not found">>
L_NOT_FOUND == Err(" File not found")
L_UNKNOWN == Err(" Unknown command")
L_NO_FILES == <<"No files found">>
\* What a recv loop has in its buffer when the peer sent nothing.
NO_LINE == <<>>

\* A response: the lines sent, and the raw bytes sent after the last line.
Reply(line) == [line |-> line, data |-> <<>>]
SizedReply(data) == [line |-> ToDec(Len(data)), data |-> data]

(***************************************************************************)
(* Backends: handle_client of S2.c, S3.c and S4.c.  The three files are    *)
(* copies of one another up to the tier name; S4.c has no DEL and no TAR   *)
(* branch.                                                                 *)
(***************************************************************************)
\* relPath: the path with the tier's alias and one following '/' removed.
RelPath(tier, path) ==
  IF HasPrefix(path, Alias(tier))
  THEN LET r == SubSeq(path, 4, Len(path))
       IN  IF r # <<>> /\ Head(r) = SLASH THEN Tail(r) ELSE r
  ELSE path

\* The verbs a backend's if / else-if chain has a branch for.
Verbs(tier) ==
  IF tier = S4 THEN {"STORE", "GET", "LIST"}
  ELSE {"STORE", "GET", "DEL", "TAR", "LIST"}

\* for (p = tmp + 1; *p; ++p) if (*p == '/') mkdir(prefix);  mkdir(tmp);
\* every result of mkdir is ignored.
RECURSIVE MakeSubdirs(_, _, _)
MakeSubdirs(f, tmp, i) ==
  IF i > Len(tmp) THEN mkdir(f, tmp)
  ELSE IF tmp[i] = SLASH
       THEN MakeSubdirs(mkdir(f, SubSeq(tmp, 1, i - 1)), tmp, i + 1)
       ELSE MakeSubdirs(f, tmp, i + 1)

\* A STORE that would leave what it received of a short transfer.
StoreKeepsPartial(f, fullPath, fileSize, arrived) ==
  LET g == fwrite(f, fullPath, arrived)
  IN  IF fileSize - Len(arrived) # 0
      THEN [fs |-> g, sent |-> <<L_ERROR>>]
      ELSE [fs |-> g, sent |-> <<L_SUCCESS>>]

\* The bytes of a STORE are written as they arrive; a short transfer leaves
\* remaining != 0 and the file is removed.
StoreReceive(f, fullPath, fileSize, arrived) ==
  LET g == fwrite(f, fullPath, arrived)
  IN  IF fileSize - Len(arrived) # 0
      THEN [fs |-> remove(g, fullPath), sent |-> <<L_ERROR>>]
      ELSE [fs |-> g, sent |-> <<L_SUCCESS>>]

\* STORE <path> <size>: arrived are the bytes that reach the backend before
\* the connection ends; diskError makes fopen fail (permissions, full disk).
STORE(f, tier, path, fileSize, arrived, diskError) ==
  LET fullPath == BasePath(tier) \o <<SLASH>> \o RelPath(tier, path)
      g == MakeSubdirs(f, CutAtLastSlash(fullPath), 2)
  IN  IF diskError \/ ~fopen_wb_ok(g, fullPath)
      THEN [fs |-> g, sent |-> <<L_ERROR>>]
      ELSE StoreReceive(fopen_wb(g, fullPath), fullPath, fileSize, arrived)

\* A GET that would answer a missing file with a size line of 0.
GetEmptyForMissing(f, tier, path) ==
  LET relPath == RelPath(tier, path)
      fullPath == BasePath(tier) \o <<SLASH>> \o (IF relPath # <<>> THEN relPath ELSE <<DOT>>)
  IN  IF ~fopen_rb_ok(f, fullPath)
      THEN SizedReply(<<>>)
      ELSE SizedReply(fread(f, fullPath))

\* GET <path>
GET(f, tier, path) ==
  LET relPath == RelPath(tier, path)
      fullPath == BasePath(tier) \o <<SLASH>> \o (IF relPath # <<>> THEN relPath ELSE <<DOT>>)
  IN  IF ~fopen_rb_ok(f, fullPath)
      THEN Reply(L_NOT_FOUND)
      ELSE SizedReply(fread(f, fullPath))

\* A walk that would stop after one level.
PruneOneLevel(f, currentDir, baseDir) ==
  IF currentDir = baseDir THEN f ELSE rmdir(f, currentDir)

\* The upward walk of DEL: rmdir the directory, climb, stop at baseDir or at
\* the first rmdir that fails.
RECURSIVE PruneUp(_, _, _)
PruneUp(f, currentDir, baseDir) ==
  IF currentDir = baseDir THEN f
  ELSE IF rmdir_ok(f, currentDir)
       THEN IF LastIndexOf(currentDir, SLASH) # 0
            THEN PruneUp(rmdir(f, currentDir), CutAtLastSlash(currentDir), baseDir)
            ELSE rmdir(f, currentDir)
       ELSE f

\* A DEL that would report an error when it could not prune the directory.
DelAnswersByPrune(f, tier, path) ==
  LET baseDir == BasePath(tier)
      fullPath == baseDir \o <<SLASH>> \o RelPath(tier, path)
      g == unlink(f, fullPath)
      dir == CutAtLastSlash(fullPath)
  IN  [fs |-> PruneUp(g, dir, baseDir),
       sent |-> <<IF unlink_ok(f, fullPath) /\ rmdir_ok(g, dir)
                  THEN L_SUCCESS ELSE L_ERROR>>]

\* A DEL that would unlink the file and leave the directories alone.
DelWithoutWalk(f, tier, path) ==
  LET fullPath == BasePath(tier) \o <<SLASH>> \o RelPath(tier, path)
  IN  [fs |-> unlink(f, fullPath),
       sent |-> <<IF unlink_ok(f, fullPath) THEN L_SUCCESS ELSE L_ERROR>>]

\* DEL <path>: the answer is sent right after unlink; the walk follows
\* whether or not the unlink succeeded.
DEL(f, tier, path) ==
  LET baseDir == BasePath(tier)
      fullPath == baseDir \o <<SLASH>> \o RelPath(tier, path)
      answer == IF unlink_ok(f, fullPath) THEN L_SUCCESS ELSE L_ERROR
      g == unlink(f, fullPath)
  IN  IF "DEL" \notin Verbs(tier)
      THEN [fs |-> f, sent |-> <<L_UNKNOWN>>]
      ELSE IF LastIndexOf(fullPath, SLASH) = 0
           THEN [fs |-> g, sent |-> <<answer, L_SUCCESS>>]
           ELSE [fs |-> PruneUp(g, CutAtLastSlash(fullPath), baseDir), sent |-> <<answer>>]

\* The extension class a tier owns.
TierExt(tier) ==
  CASE tier = S1 -> EXT_C [] tier = S2 -> EXT_PDF [] tier = S3 -> EXT_TXT [] tier = S4 -> EXT_ZIP

\* sizeof(listBuf), sizeof(output) and the capacity of the name arrays.
LIST_BUF == 2048
MAX_NAMES == 256

\* strncat(buf, s, cap - strlen(buf) - 1)
strncat(buf, s, cap) == buf \o SubSeq(s, 1, Min(Len(s), cap - Len(buf) - 1))

\* A find that would not descend: the files right in the tier's root.
FindAtRoot(f, tier, ext) ==
  {p \in DOMAIN f.files :
     /\ UnderRoot(tier, p) /\ Len(p) = Len(Root(tier)) + 1
     /\ Len(p[Len(p)]) >= Len(ext)
     /\ SubSeq(p[Len(p)], Len(p[Len(p)]) - Len(ext) + 1, Len(p[Len(p)])) = ext}

\* find <root> -name "*<ext>" -type f: the regular files below the tier's
\* root, at any depth, whose name ends in ext.
Find(f, tier, ext) ==
  {p \in DOMAIN f.files :
     /\ UnderRoot(tier, p)
     /\ Len(p[Len(p)]) >= Len(ext)
     /\ SubSeq(p[Len(p)], Len(p[Len(p)]) - Len(ext) + 1, Len(p[Len(p)])) = ext}

\* The archive tar writes for the members in the order given: one element
\* per member, then the end-of-archive blocks.
EOA == [member |-> <<>>, bytes |-> <<>>]
TarOf(f, order) ==
  [i \in 1..Len(order) |-> [member |-> order[i], bytes |-> f.files[order[i]]]] \o <<EOA>>

\* A backend that would refuse whenever asked for an archive.
TarRefused(f, tier, fileType, order, toolStatus) ==
  Reply(Err(" Failed to create tar file"))

\* TAR<type> at a backend.  `find | xargs tar -cf tmp` archives the files
\* found (order is the order find prints them in).  With none found, tar
\* either is not run (exit 0) or refuses to create an empty archive
\* (exit # 0): toolStatus says which; tmp is then still the empty file
\* mkstemp made, and a count of 0 makes the code write an empty tmp anew.
TAR(f, tier, fileType, order, toolStatus) ==
  LET found == Find(f, tier, fileType)
      status == IF found # {} THEN 0 ELSE toolStatus
      tmp == IF found # {} THEN TarOf(f, order) ELSE <<>>
  IN  IF "TAR" \notin Verbs(tier) THEN Reply(L_UNKNOWN)
      ELSE IF fileType = <<>> \/ strcmp(fileType, TierExt(tier)) # 0
      THEN Reply(Err(" only handles own file type"))
      ELSE IF status # 0 /\ Cardinality(found) # 0
      THEN Reply(Err(" Failed to create tar file"))
      ELSE IF status # 0
      THEN SizedReply(<<>>)
      ELSE SizedReply(tmp)

\* The directory a LIST <path> reads.
ListDir(tier, path) ==
  IF path = <<>> \/ path = <<DOT>> THEN BasePath(tier)
  ELSE BasePath(tier) \o <<SLASH>> \o RelPath(tier, path)

\* The loop over readdir: hidden entries and non-regular entries are skipped.
RECURSIVE ListBuf(_, _)
ListBuf(order, buf) ==
  IF order = <<>> THEN buf
  ELSE IF Head(order).d_name[1] = DOT \/ Head(order).d_type # "DT_REG"
       THEN ListBuf(Tail(order), buf)
       ELSE ListBuf(Tail(order),
                    strncat(strncat(buf, Head(order).d_name, LIST_BUF), <<NL>>, LIST_BUF))

\* A backend that would list nothing.
ListNothing(f, tier, path, order) == Reply(<<"0">>)

\* LIST <path>: order is the order in which readdir returns the entries.
LIST(f, tier, path, order) ==
  IF ~opendir_ok(f, ListDir(tier, path)) THEN Reply(<<"0">>)
  ELSE SizedReply(ListBuf(order, <<>>))

(***************************************************************************)
(* Dispatcher: S1.c.                                                       *)
(***************************************************************************)
\* A subPath that would keep the alias: only the trailing '/' is removed.
SubPathKeepsAlias(path) ==
  IF path # <<>> /\ path[Len(path)] = SLASH
  THEN SubSeq(path, 1, Len(path) - 1) ELSE path

\* pathCopy with one trailing '/' removed, then "~S1" and one following '/'
\* skipped: the subPath of handle_upload, handle_download, handle_remove and
\* handle_dispfnames.
SubPath(path) ==
  LET pathCopy == IF path # <<>> /\ path[Len(path)] = SLASH
                  THEN SubSeq(path, 1, Len(path) - 1) ELSE path
  IN  IF HasPrefix(pathCopy, Alias(S1))
      THEN LET r == SubSeq(pathCopy, 4, Len(pathCopy))
           IN  IF r # <<>> /\ Head(r) = SLASH THEN Tail(r) ELSE r
      ELSE pathCopy

\* "%s/%s" of a base and the rest of a path, or the base alone for an empty rest.
Join(base, rest) == IF rest # <<>> THEN base \o <<SLASH>> \o rest ELSE base

\* One step of ensure_directory_exists on the prefix dir: created when
\* missing, an error when it exists and is no directory.
EnsureOne(f, dir) ==
  IF ~stat_ok(f, dir)
  THEN LET g == mkdir(f, dir) IN [ok |-> g # f, fs |-> g]
  ELSE [ok |-> S_ISDIR(f, dir), fs |-> f]

RECURSIVE EnsureFrom(_, _, _)
EnsureFrom(f, tmp, i) ==
  IF i > Len(tmp) THEN EnsureOne(f, tmp)
  ELSE IF tmp[i] = SLASH
       THEN LET r == EnsureOne(f, SubSeq(tmp, 1, i - 1))
            IN  IF r.ok THEN EnsureFrom(r.fs, tmp, i + 1) ELSE r
       ELSE EnsureFrom(f, tmp, i + 1)

ensure_directory_exists(f, path) ==
  IF stat_ok(f, path) THEN [ok |-> S_ISDIR(f, path), fs |-> f]
  ELSE IF Len(path) = 0 THEN [ok |-> FALSE, fs |-> f]
  ELSE EnsureFrom(f, IF path[Len(path)] = SLASH
                     THEN SubSeq(path, 1, Len(path) - 1) ELSE path, 2)

\* A routing that would send whatever is not .pdf or .txt to S4, and one that
\* would send everything to S2.
RestToS4(ext) ==
  IF strcmp(ext, EXT_PDF) = 0 THEN S2
  ELSE IF strcmp(ext, EXT_TXT) = 0 THEN S3
  ELSE S4
AllToS2(ext) == S2

\* The backend handle_upload forwards to: <<>> when the extension is none of
\* .pdf, .txt, .zip.
UploadServer(ext) ==
  IF strcmp(ext, EXT_PDF) = 0 THEN S2
  ELSE IF strcmp(ext, EXT_TXT) = 0 THEN S3
  ELSE IF strcmp(ext, EXT_ZIP) = 0 THEN S4
  ELSE <<>>

\* The backend handle_download, handle_remove and handle_downltar turn to.
FileServer(ext) ==
  IF strcmp(ext, EXT_PDF) = 0 THEN S2
  ELSE IF strcmp(ext, EXT_TXT) = 0 THEN S3
  ELSE <<>>

\* A dispatcher that would leave the local copy where it is.
LocalCopyKept(f, fullPath) == f

\* remove(fullPath) of the local copy once the backend has acknowledged.
RemoveLocalCopy(f, fullPath) == remove(f, fullPath)

\* The end of handle_upload after a SUCCESS acknowledgement.
UploadForwarded(f, fullPath, fullDir) ==
  PruneUp(RemoveLocalCopy(f, fullPath), fullDir, BasePath(S1))

\* A forwarding that would leave the local copy when the backend cannot be reached.
UploadForwardKeepsCopy(f, server, subPath, filename, fullPath, fullDir, fileSize, arrived, fault) ==
  LET remotePath == IF subPath # <<>> THEN subPath \o <<SLASH>> \o filename ELSE filename
      st == STORE(f, server, remotePath, fileSize,
                  IF fault = "forward" THEN arrived ELSE fread(f, fullPath), fault = "disk")
      ack == IF fault = "ack" THEN NO_LINE ELSE st.sent[1]
      header == <<[to |-> server, verb |-> "STORE", path |-> remotePath]>>
  IN  IF fault = "connect"
      THEN [fs |-> f, ret |-> -1, requests |-> <<>>]
      ELSE IF fault = "header"
      THEN [fs |-> remove(f, fullPath), ret |-> -1, requests |-> <<>>]
      ELSE IF fault = "forward" \/ ~HasPrefix(ack, L_SUCCESS)
      THEN [fs |-> remove(st.fs, fullPath), ret |-> -1, requests |-> header]
      ELSE [fs |-> UploadForwarded(st.fs, fullPath, fullDir), ret |-> 0,
            requests |-> header]

\* handle_upload from the connect to the backend on.  fault is what goes
\* wrong between the two servers: "connect" (backend unreachable), "header"
\* (the STORE line cannot be sent), "forward" (the connection fails while the
\* content is sent, arrived being what got through), "disk" (the backend
\* cannot open the file), "ack" (the acknowledgement does not arrive).
UploadForward(f, server, subPath, filename, fullPath, fullDir, fileSize, arrived, fault) ==
  LET remotePath == IF subPath # <<>> THEN subPath \o <<SLASH>> \o filename ELSE filename
      content == fread(f, fullPath)
      st == STORE(f, server, remotePath, fileSize,
                  IF fault = "forward" THEN arrived ELSE content, fault = "disk")
      ack == IF fault = "ack" THEN NO_LINE ELSE st.sent[1]
      header == <<[to |-> server, verb |-> "STORE", path |-> remotePath]>>
  IN  IF fault \in {"connect", "header"}
      THEN [fs |-> remove(f, fullPath), ret |-> -1, requests |-> <<>>]
      ELSE IF fault = "forward"
      THEN [fs |-> remove(st.fs, fullPath), ret |-> -1, requests |-> header]
      ELSE IF ~HasPrefix(ack, L_SUCCESS)
      THEN [fs |-> remove(st.fs, fullPath), ret |-> -1, requests |-> header]
      ELSE [fs |-> UploadForwarded(st.fs, fullPath, fullDir), ret |-> 0,
            requests |-> header]

\* The receive loop of handle_upload: what the client delivered is written to
\* the local file; a connection lost before fileSize bytes returns -1.
UploadReceive(f, fullPath, fileSize, delivered) ==
  [fs |-> fwrite(f, fullPath, delivered),
   ok |-> Len(delivered) = fileSize]

\* An upload that would leave the payload unread when it gives up.
NoDrain(fileSize, delivered) == 0

\* The drain loops of handle_upload: payload bytes are read and discarded
\* until fileSize of them are consumed or the client has no more to give.
Drain(fileSize, delivered) == Min(fileSize, Len(delivered))

\* handle_upload.  delivered: the payload bytes the client sends before it
\* stops (all fileSize of them unless it disconnects).  consumed: the payload
\* bytes the dispatcher has read from the client when it returns.  requests:
\* the requests it has sent to backends.
handle_upload(f, filename, destPath, fileSize, delivered, arrived, fault) ==
  LET ext == strrchr(filename, DOT)
      basePath == BasePath(S1)
      subPath == SubPath(destPath)
      fullDir == Join(basePath, subPath)
      dir == ensure_directory_exists(f, fullDir)
      fullPath == fullDir \o <<SLASH>> \o filename
      rcv == UploadReceive(fopen_wb(dir.fs, fullPath), fullPath, fileSize, delivered)
      fwd == UploadForward(rcv.fs, UploadServer(ext), subPath, filename, fullPath,
                           fullDir, fileSize, arrived, fault)
  IN  IF ext = <<>>
      THEN [fs |-> f, ret |-> -1, consumed |-> Drain(fileSize, delivered),
            requests |-> <<>>]
      ELSE IF ~dir.ok
      THEN [fs |-> dir.fs, ret |-> -1, consumed |-> Drain(fileSize, delivered),
            requests |-> <<>>]
      ELSE IF ~fopen_wb_ok(dir.fs, fullPath)
      THEN [fs |-> dir.fs, ret |-> -1, consumed |-> Drain(fileSize, delivered),
            requests |-> <<>>]
      ELSE IF ~rcv.ok
      THEN [fs |-> rcv.fs, ret |-> -1, consumed |-> Len(delivered), requests |-> <<>>]
      ELSE IF strcmp(ext, EXT_C) = 0
      THEN [fs |-> rcv.fs, ret |-> 0, consumed |-> fileSize, requests |-> <<>>]
      ELSE IF UploadServer(ext) = <<>>
      THEN [fs |-> remove(rcv.fs, fullPath), ret |-> -1, consumed |-> fileSize,
            requests |-> <<>>]
      ELSE [fs |-> fwd.fs, ret |-> fwd.ret, consumed |-> fileSize,
            requests |-> fwd.requests]

\* The relay loop of handle_download and handle_downltar: the size line is
\* sent, then the bytes as they arrive; with fault "relay" the backend
\* connection fails before the last byte.
Relay(reply, fault) ==
  [line |-> ToDec(atol(reply.line)),
   data |-> IF fault = "relay" /\ reply.data # <<>>
            THEN SubSeq(reply.data, 1, Len(reply.data) - 1)
            ELSE SubSeq(reply.data, 1, Min(Len(reply.data), atol(reply.line)))]

\* handle_download: what the client receives.
handle_download(f, filePath, fault) ==
  LET ext == strrchr(filePath, DOT)
      subPath == SubPath(filePath)
      localPath == BasePath(S1) \o <<SLASH>> \o subPath
      reply == GET(f, FileServer(ext), subPath)
  IN  IF ext = <<>> THEN Reply(Err(" Invalid file path"))
      ELSE IF strcmp(ext, EXT_C) = 0
      THEN IF ~fopen_rb_ok(f, localPath) THEN Reply(L_NOT_FOUND)
           ELSE SizedReply(fread(f, localPath))
      ELSE IF FileServer(ext) = <<>> THEN Reply(Err(" Unsupported file type"))
      ELSE IF fault = "connect" THEN Reply(Err(" File server unavailable"))
      ELSE IF reply.line = NO_LINE THEN Reply(Err(" Failed to retrieve file"))
      ELSE IF HasPrefix(reply.line, L_ERROR) THEN Reply(reply.line)
      ELSE Relay(reply, fault)

\* handle_remove: the filesystem afterwards and the value returned.
handle_remove(f, filePath, fault) ==
  LET ext == strrchr(filePath, DOT)
      basePath == BasePath(S1)
      subPath == SubPath(filePath)
      fullPath == basePath \o <<SLASH>> \o subPath
      del == DEL(f, FileServer(ext), subPath)
      ack == IF fault = "ack" THEN NO_LINE ELSE del.sent[1]
  IN  IF ext = <<>> THEN [fs |-> f, ret |-> -1]
      ELSE IF strcmp(ext, EXT_C) = 0
      THEN IF unlink_ok(f, fullPath)
           THEN [fs |-> PruneUp(unlink(f, fullPath), CutAtLastSlash(fullPath), basePath),
                 ret |-> 0]
           ELSE [fs |-> f, ret |-> -1]
      ELSE IF FileServer(ext) = <<>> THEN [fs |-> f, ret |-> -1]
      ELSE IF fault = "connect" THEN [fs |-> f, ret |-> -1]
      ELSE [fs |-> del.fs, ret |-> IF HasPrefix(ack, L_SUCCESS) THEN 0 ELSE -1]

\* The tar of the dispatcher's own .c files:
\*   cd ~/S1 && find . -name "*.c" -print0 | tar --null -T - -cf tmp || echo 'empty'
\* With no file found tar writes an archive without members (toolStatus 0)
\* or fails and leaves tmp empty; an empty tmp is written anew as an empty
\* file.  Either way tmp is sent with its size.
LocalTar(f, order, toolStatus) ==
  LET found == Find(f, S1, EXT_C)
      tmp == IF found # {} \/ toolStatus = 0 THEN TarOf(f, order) ELSE <<>>
  IN  IF Len(tmp) = 0 THEN SizedReply(<<>>) ELSE SizedReply(tmp)

\* handle_downltar: what the client receives.
handle_downltar(f, fileType, fault, order, toolStatus) ==
  LET reply == TAR(f, FileServer(fileType), fileType, order, toolStatus)
  IN  IF /\ strcmp(fileType, EXT_C) # 0 /\ strcmp(fileType, EXT_PDF) # 0
         /\ strcmp(fileType, EXT_TXT) # 0 /\ strcmp(fileType, EXT_ZIP) # 0
      THEN Reply(Err(" Invalid filetype (supported: .c, .pdf, .txt, .zip)"))
      ELSE IF strcmp(fileType, EXT_C) = 0 THEN LocalTar(f, order, toolStatus)
      ELSE IF strcmp(fileType, EXT_PDF) = 0 \/ strcmp(fileType, EXT_TXT) = 0
      THEN IF fault = "connect" THEN Reply(Err(" File server unavailable"))
           ELSE IF reply.line = NO_LINE
           THEN Reply(Err(" Tar failed (no response from server)"))
           ELSE IF HasPrefix(reply.line, L_ERROR) THEN Reply(reply.line)
           ELSE Relay(reply, fault)
      ELSE Reply(Err(" Unsupported filetype"))

\* An exchange that would return without close when the content cannot be sent.
ExchangeLeaky(server, verb, fault) ==
  LET sfd(call) == [call |-> call, to |-> server, verb |-> verb]
  IN  IF fault = "connect" THEN <<sfd("socket"), sfd("close")>>
      ELSE IF fault = "header" THEN <<sfd("socket"), sfd("connect"), sfd("close")>>
      ELSE IF fault = "forward" THEN <<sfd("socket"), sfd("connect"), sfd("send")>>
      ELSE <<sfd("socket"), sfd("connect"), sfd("send"), sfd("close")>>

\* The calls on the socket sfd of one request to a backend, as the handlers
\* of the dispatcher make them: socket, connect, the send of the command
\* line, close.  A connect that fails is followed by close at once, and so is
\* a command line that cannot be sent; whatever goes wrong later (content
\* not sent, no answer, an ERROR answer, the relay broken off), close is
\* called before the handler returns.
Exchange(server, verb, fault) ==
  LET sfd(call) == [call |-> call, to |-> server, verb |-> verb]
  IN  IF fault = "connect" THEN <<sfd("socket"), sfd("close")>>
      ELSE IF fault = "header" THEN <<sfd("socket"), sfd("connect"), sfd("close")>>
      ELSE <<sfd("socket"), sfd("connect"), sfd("send"), sfd("close")>>

\* The socket calls of handle_upload: none when it returns before the
\* forwarding (no extension, directory or file not created, payload cut
\* short, a .c file, an extension without a backend).
upload_sockets(f, filename, destPath, fileSize, delivered, fault) ==
  LET ext == strrchr(filename, DOT)
      fullDir == Join(BasePath(S1), SubPath(destPath))
      dir == ensure_directory_exists(f, fullDir)
      fullPath == fullDir \o <<SLASH>> \o filename
  IN  IF ext = <<>> THEN <<>>
      ELSE IF ~dir.ok THEN <<>>
      ELSE IF ~fopen_wb_ok(dir.fs, fullPath) THEN <<>>
      ELSE IF Len(delivered) # fileSize THEN <<>>
      ELSE IF strcmp(ext, EXT_C) = 0 THEN <<>>
      ELSE IF UploadServer(ext) = <<>> THEN <<>>
      ELSE Exchange(UploadServer(ext), "STORE", fault)

\* The socket calls of handle_download, handle_remove and handle_downltar:
\* none for a path without extension, for .c and for an extension they have
\* no backend for.
download_sockets(filePath, fault) ==
  LET ext == strrchr(filePath, DOT)
  IN  IF ext = <<>> \/ strcmp(ext, EXT_C) = 0 \/ FileServer(ext) = <<>> THEN <<>>
      ELSE Exchange(FileServer(ext), "GET", fault)
remove_sockets(filePath, fault) ==
  LET ext == strrchr(filePath, DOT)
  IN  IF ext = <<>> \/ strcmp(ext, EXT_C) = 0 \/ FileServer(ext) = <<>> THEN <<>>
      ELSE Exchange(FileServer(ext), "DEL", fault)
downltar_sockets(fileType, fault) ==
  IF strcmp(fileType, EXT_PDF) = 0 \/ strcmp(fileType, EXT_TXT) = 0
  THEN Exchange(FileServer(fileType), "TAR", fault)
  ELSE <<>>

\* The socket calls of handle_dispfnames: connect_and_list for S2, then for
\* S3, then for S4, whatever the one before returned.
dispfnames_sockets(faults3) ==
  Exchange(S2, "LIST", faults3[1]) \o Exchange(S3, "LIST", faults3[2])
    \o Exchange(S4, "LIST", faults3[3])

\* The files a downltar of fileType archives, for the choice of an order.
TarMembers(f, fileType) ==
  IF strcmp(fileType, EXT_C) = 0 THEN Find(f, S1, EXT_C)
  ELSE IF FileServer(fileType) # <<>> THEN Find(f, FileServer(fileType), fileType)
  ELSE {}

\* cmpfunc / qsort: the names in ascending strcmp order (insertion sort).
RECURSIVE Insert(_, _)
Insert(name, sorted) ==
  IF sorted = <<>> THEN <<name>>
  ELSE IF strcmp(name, Head(sorted)) <= 0 THEN <<name>> \o sorted
  ELSE <<Head(sorted)>> \o Insert(name, Tail(sorted))

\* The names left in the order they were collected in.
Unsorted(names) == names

RECURSIVE qsort(_)
qsort(names) == IF names = <<>> THEN <<>> ELSE Insert(Head(names), qsort(Tail(names)))

\* An array of names that stops growing at MAX_NAMES entries.
Capped(names) == SubSeq(names, 1, Min(Len(names), MAX_NAMES))

\* The local scan of handle_dispfnames: the regular files of localDir whose
\* extension is .c, in readdir order.
RECURSIVE LocalNames(_)
LocalNames(order) ==
  IF order = <<>> THEN <<>>
  ELSE IF /\ Head(order).d_type = "DT_REG"
          /\ strrchr(Head(order).d_name, DOT) # <<>>
          /\ strcmp(strrchr(Head(order).d_name, DOT), EXT_C) = 0
       THEN <<Head(order).d_name>> \o LocalNames(Tail(order))
       ELSE LocalNames(Tail(order))

\* A dispatcher that would take no name from a backend.
NoNames(f, tier, subPath, reachable, order) == <<>>

\* connect_and_list: the names received from one backend; none when the
\* backend is unreachable or its size line is not positive.
connect_and_list(f, tier, subPath, reachable, order) ==
  LET reply == LIST(f, tier, IF subPath # <<>> THEN subPath ELSE <<DOT>>, order)
      listSize == atol(reply.line)
  IN  IF ~reachable THEN <<>>
      ELSE IF listSize <= 0 THEN <<>>
      ELSE Capped(Tokens(SubSeq(reply.data, 1, listSize), NL))

\* The output buffer: every name followed by a newline, strncat by strncat.
RECURSIVE Output(_, _)
Output(names, out) ==
  IF names = <<>> THEN out
  ELSE Output(Tail(names), strncat(strncat(out, Head(names), LIST_BUF), <<NL>>, LIST_BUF))

\* The four sorted groups of handle_dispfnames.  up is the set of reachable
\* backends, orders[t] the readdir order in tier t.
Groups(f, dirPath, up, orders) ==
  LET subPath == SubPath(dirPath)
      localDir == Join(BasePath(S1), subPath)
  IN  <<qsort(IF opendir_ok(f, localDir) THEN Capped(LocalNames(orders[S1])) ELSE <<>>),
        qsort(connect_and_list(f, S2, subPath, S2 \in up, orders[S2])),
        qsort(connect_and_list(f, S3, subPath, S3 \in up, orders[S3])),
        qsort(connect_and_list(f, S4, subPath, S4 \in up, orders[S4]))>>

\* A dispfnames that would answer an empty listing with a size line.
ListAlwaysSized(f, dirPath, up, orders) ==
  LET g == Groups(f, dirPath, up, orders)
  IN  SizedReply(Output(g[1] \o g[2] \o g[3] \o g[4], <<>>))

\* handle_dispfnames: what the client receives.
handle_dispfnames(f, dirPath, up, orders) ==
  LET g == Groups(f, dirPath, up, orders)
      output == Output(g[1] \o g[2] \o g[3] \o g[4], <<>>)
  IN  IF Len(output) = 0 THEN Reply(L_NO_FILES) ELSE SizedReply(output)

\* The directory of tier t that a dispfnames of dirPath reads.
ScanDir(t, dirPath) ==
  IF t = S1 THEN Join(BasePath(S1), SubPath(dirPath))
  ELSE ListDir(t, IF SubPath(dirPath) # <<>> THEN SubPath(dirPath) ELSE <<DOT>>)

\* All choices of a readdir order in every tier.
ScanOrders(f, dirPath) ==
  {[t \in Tiers |-> CASE t = S1 -> o1 [] t = S2 -> o2 [] t = S3 -> o3 [] OTHER -> o4] :
     o1 \in Orders(readdir(f, ScanDir(S1, dirPath))),
     o2 \in Orders(readdir(f, ScanDir(S2, dirPath))),
     o3 \in Orders(readdir(f, ScanDir(S3, dirPath))),
     o4 \in Orders(readdir(f, ScanDir(S4, dirPath)))}

\* prcclient: the line that answers uploadf and removef.
UploadAnswer(ret) ==
  IF ret = 0 THEN Succ(" File uploaded") ELSE Err(" File upload failed")
RemoveAnswer(ret) ==
  IF ret = 0 THEN Succ(" File removed") ELSE Err(" File not found or cannot remove")

(***************************************************************************)
(* prcclient: the command loop that serves one client connection.  The     *)
(* connection's input is the sequence of bytes the client sends before it  *)
(* disconnects; lines are shorter than MAX_CMD_LEN.  Nothing fails between *)
(* the servers here.                                                       *)
(***************************************************************************)
W_uploadf == <<"u", "p", "l", "o", "a", "d", "f">>
W_downlf == <<"d", "o", "w", "n", "l", "f">>
W_removef == <<"r", "e", "m", "o", "v", "e", "f">>
W_downltar == <<"d", "o", "w", "n", "l", "t", "a", "r">>
W_dispfnames == <<"d", "i", "s", "p", "f", "n", "a", "m", "e", "s">>

\* strtok(NULL, "") after the command word: what follows the delimiter that
\* ended the word; <<>> stands for NULL (nothing follows).
RestOfLine(cmdBuf) ==
  LET s == SkipSpaces(cmdBuf)
      i == FirstIndexOf(s, SP)
  IN  IF i = 0 THEN <<>> ELSE SubSeq(s, i + 1, Len(s))

\* A command loop that would send nothing for a line it answers itself.
Unanswered(f, reply) == {[fs |-> f, sent |-> <<>>, consumed |-> 0]}

\* What serving one command does: the filesystem afterwards, the responses
\* sent to the client and the payload bytes taken from the connection.
Answered(f, reply) == {[fs |-> f, sent |-> <<reply>>, consumed |-> 0]}

\* uploadf <filename> <dest_path> <filesize>; rest is what the client sends
\* after the command line.
UploadCommand(f, tok, rest) ==
  LET fileSize == atol(tok[4])
      delivered == SubSeq(rest, 1, Min(fileSize, Len(rest)))
      r == handle_upload(f, tok[2], tok[3], fileSize, delivered, delivered, "none")
  IN  IF Len(tok) < 4 THEN Answered(f, Reply(Err(" Invalid uploadf command format")))
      ELSE IF fileSize < 0 THEN Answered(f, Reply(Err(" Invalid file size")))
      ELSE {[fs |-> r.fs, sent |-> <<Reply(UploadAnswer(r.ret))>>, consumed |-> r.consumed]}

\* downlf, removef and dispfnames take the rest of the line as their path.
PathCommand(f, command, cmdBuf) ==
  LET path == SkipSpaces(RestOfLine(cmdBuf))
      rm == handle_remove(f, path, "none")
  IN  IF strcmp(command, W_downlf) = 0
      THEN IF RestOfLine(cmdBuf) = <<>>
           THEN Answered(f, Reply(Err(" Invalid downlf command format")))
           ELSE IF path = <<>> THEN Answered(f, Reply(Err(" Invalid file path")))
           ELSE Answered(f, handle_download(f, path, "none"))
      ELSE IF strcmp(command, W_removef) = 0
      THEN IF RestOfLine(cmdBuf) = <<>>
           THEN Answered(f, Reply(Err(" Invalid removef command format")))
           ELSE IF path = <<>> THEN Answered(f, Reply(Err(" Invalid file path")))
           ELSE Answered(rm.fs, Reply(RemoveAnswer(rm.ret)))
      ELSE IF RestOfLine(cmdBuf) = <<>>
           THEN Answered(f, Reply(Err(" Invalid dispfnames command format")))
           ELSE IF path = <<>> THEN Answered(f, Reply(Err(" Invalid directory path")))
           ELSE UNION {Answered(f, handle_dispfnames(f, path, Backends, orders)) :
                         orders \in ScanOrders(f, path)}

\* One pass of the loop of prcclient for the command line cmdBuf.
Command(f, cmdBuf, rest) ==
  LET tok == Tokens(cmdBuf, SP)
      command == tok[1]
  IN  IF tok = <<>> THEN {[fs |-> f, sent |-> <<>>, consumed |-> 0]}
      ELSE IF strcmp(command, W_uploadf) = 0 THEN UploadCommand(f, tok, rest)
      ELSE IF \/ strcmp(command, W_downlf) = 0
              \/ strcmp(command, W_removef) = 0
              \/ strcmp(command, W_dispfnames) = 0
      THEN PathCommand(f, command, cmdBuf)
      ELSE IF strcmp(command, W_downltar) = 0
      THEN IF Len(tok) < 2
           THEN Answered(f, Reply(Err(" Invalid downltar command format")))
           ELSE UNION {Answered(f, handle_downltar(f, tok[2], "none", order, toolStatus)) :
                         order \in Orders(TarMembers(f, tok[2])), toolStatus \in {0, 123}}
      ELSE Answered(f, Reply(L_UNKNOWN))

\* A command loop that would put the response of a later command before
\* those of the earlier ones.
RECURSIVE Pipelined(_, _, _)
Pipelined(f, stream, out) ==
  LET n == FirstIndexOf(stream, NL)
      rest == SubSeq(stream, n + 1, Len(stream))
  IN  IF n = 0 THEN {[fs |-> f, out |-> out]}
      ELSE UNION {Pipelined(r.fs, SubSeq(rest, r.consumed + 1, Len(rest)), r.sent \o out) :
                    r \in Command(f, SubSeq(stream, 1, n - 1), rest)}

\* prcclient: lines are read and served one after the other until the client
\* sends no further line; the results are the filesystem and the responses
\* sent, in order, for every way the commands can turn out.
RECURSIVE prcclient(_, _, _)
prcclient(f, stream, out) ==
  LET n == FirstIndexOf(stream, NL)
      rest == SubSeq(stream, n + 1, Len(stream))
  IN  IF n = 0 THEN {[fs |-> f, out |-> out]}
      ELSE UNION {prcclient(r.fs, SubSeq(rest, r.consumed + 1, Len(rest)), out \o r.sent) :
                    r \in Command(f, SubSeq(stream, 1, n - 1), rest)}

(***************************************************************************)
(* Clients and their inputs.                                               *)
(***************************************************************************)
Bytes == {"x"}
Payloads == UNION {[1..n -> Bytes] : n \in 0..MaxSize}
\* The proper prefixes of a payload: what gets through before a connection fails.
Cuts(payload) == {SubSeq(payload, 1, k) : k \in 0..(Len(payload) - 1)}

UploadFaults == {"connect", "header", "forward", "disk", "ack"}

\* The place in the virtual namespace that a file path, or a directory and
\* a file name, stand for.
VLoc(path) == Lookup(SubPath(path))
VLocIn(dir, name) == Lookup(Join(SubPath(dir), name))

\* The class of a response line.
Class(line) ==
  IF HasPrefix(line, L_ERROR) THEN "ERROR"
  ELSE IF HasPrefix(line, L_SUCCESS) THEN "SUCCESS"
  ELSE IF line # <<>> /\ IsDigit(line[1]) THEN "SIZE"
  ELSE "TEXT"

\* acked without the entry of location k.
Forget(a, k) == [q \in (DOMAIN a) \ {k} |-> a[q]]
Remember(a, k, payload) == [q \in (DOMAIN a) \cup {k} |-> IF q = k THEN payload ELSE a[q]]

(***************************************************************************)
(* State: fs is the filesystem; acked is the clients' record of the        *)
(* uploads acknowledged with SUCCESS and not followed by an uploadf or     *)
(* removef of the same path; last is the last command served, the class of *)
(* its answer and, for an uploadf or removef that succeeded, the place it  *)
(* was about; faults counts the faults injected so far.                    *)
(***************************************************************************)
Init_fs ==
  [dirs |-> {<<>>, <<Tail(HOME)>>} \cup {Root(t) : t \in Tiers},
   files |-> <<>>]
Init ==
  /\ fs = Init_fs
  /\ acked = <<>>
  /\ last = [op |-> "none", arg |-> <<>>, resp |-> "TEXT"]
  /\ faults = 0
  /\ workers = <<>>

\* The size of a scenario: the files in the filesystem plus the faults
\* injected so far.
Load(f, n) == Cardinality(DOMAIN f.files) + n

\* What an uploadf that ended with result r leaves behind.
Uploaded(name, dir, payload, r) ==
  /\ fs' = r.fs
  /\ acked' = IF r.ret = 0 THEN Remember(acked, VLocIn(dir, name), payload)
              ELSE Forget(acked, VLocIn(dir, name))
  /\ last' = [op |-> "uploadf",
              arg |-> IF r.ret = 0 THEN VLocIn(dir, name) ELSE <<>>,
              resp |-> Class(UploadAnswer(r.ret))]
  /\ UNCHANGED workers

\* uploadf <name> <dir> <size> followed by the payload, served without a fault.
Uploadf(name, dir, payload) ==
  LET r == handle_upload(fs, name, dir, Len(payload), payload, payload, "none")
  IN  /\ Load(r.fs, faults) <= MaxFiles
      /\ Uploaded(name, dir, payload, r)
      /\ UNCHANGED faults

\* uploadf whose client disconnects in the middle of the payload.
UploadfCut(name, dir, payload, delivered) ==
  LET r == handle_upload(fs, name, dir, Len(payload), delivered, <<>>, "none")
  IN  /\ faults < MaxFaults
      /\ Load(r.fs, faults + 1) <= MaxFiles
      /\ Uploaded(name, dir, payload, r)
      /\ faults' = faults + 1

\* uploadf during which the connection to the backend, or the backend, fails.
UploadfFault(name, dir, payload, arrived, fault) ==
  LET r == handle_upload(fs, name, dir, Len(payload), payload, arrived, fault)
  IN  /\ faults < MaxFaults
      /\ UploadServer(strrchr(name, DOT)) # <<>>
      /\ Load(r.fs, faults + 1) <= MaxFiles
      /\ Uploaded(name, dir, payload, r)
      /\ faults' = faults + 1

\* removef <path>, with the backend reachable or not.
Removef(path, fault) ==
  LET r == handle_remove(fs, path, fault)
      n == IF fault # "none" THEN faults + 1 ELSE faults
  IN  /\ n <= MaxFaults
      /\ Load(r.fs, n) <= MaxFiles
      /\ fs' = r.fs
      /\ acked' = Forget(acked, VLoc(path))
      /\ last' = [op |-> "removef",
                  arg |-> IF r.ret = 0 THEN VLoc(path) ELSE <<>>,
                  resp |-> Class(RemoveAnswer(r.ret))]
      /\ faults' = n
      /\ UNCHANGED workers

\* A command that only reads: the filesystem stays, a fault is counted.
Served(n) ==
  /\ n <= MaxFaults
  /\ Load(fs, n) <= MaxFiles
  /\ faults' = n
  /\ UNCHANGED <<fs, acked, workers>>

\* downlf <path>; the fault, if any, is between the dispatcher and a backend.
Downlf(path, fault) ==
  /\ Served(IF fault # "none" THEN faults + 1 ELSE faults)
  /\ last' = [op |-> "downlf", arg |-> <<>>,
              resp |-> Class(handle_download(fs, path, fault).line)]

\* downltar <filetype>
Downltar(fileType, fault, order, toolStatus) ==
  /\ Served(IF fault # "none" THEN faults + 1 ELSE faults)
  /\ last' = [op |-> "downltar", arg |-> <<>>,
              resp |-> Class(handle_downltar(fs, fileType, fault, order, toolStatus).line)]

\* dispfnames <dir>; up are the backends that can be reached.
Dispfnames(dir, up, orders) ==
  /\ Served(IF up # Backends THEN faults + 1 ELSE faults)
  /\ last' = [op |-> "dispfnames", arg |-> <<>>,
              resp |-> Class(handle_dispfnames(fs, dir, up, orders).line)]

Next ==
  \/ \E u \in Uploads, payload \in Payloads : Uploadf(u[1], u[2], payload)
  \/ \E u \in Uploads, payload \in Payloads :
       \E delivered \in Cuts(payload) : UploadfCut(u[1], u[2], payload, delivered)
  \/ \E u \in Uploads, payload \in Payloads, fault \in UploadFaults :
       \E arrived \in IF fault = "forward" THEN Cuts(payload) ELSE {payload} :
         UploadfFault(u[1], u[2], payload, arrived, fault)
  \/ \E path \in VPaths, fault \in {"none", "connect", "ack"} : Removef(path, fault)
  \/ \E path \in VPaths, fault \in {"none", "connect", "relay"} : Downlf(path, fault)
  \/ \E fileType \in FileTypes, fault \in {"none", "connect", "relay"}, toolStatus \in {0, 123} :
       \E order \in Orders(TarMembers(fs, fileType)) :
         Downltar(fileType, fault, order, toolStatus)
  \/ \E dir \in VDirs, up \in SUBSET Backends :
       \E orders \in ScanOrders(fs, dir) : Dispfnames(dir, up, orders)

Spec == Init /\ [][Next]_vars

(***************************************************************************)
(* Workers that run at the same time.  The dispatcher forks a process per  *)
(* client and a backend starts a thread per connection; they share the     *)
(* filesystem and take no lock, so the system calls of two requests        *)
(* interleave.  A worker is a request with the position it has reached in  *)
(* its handler: pc names the next system call, k the path prefix a         *)
(* directory loop is at, dir the directory a pruning loop is at, resp the  *)
(* response it has sent.                                                   *)
(***************************************************************************)
\* The prefixes the directory loops visit: tmp cut at every '/' after the
\* first character, then tmp itself.
Prefixes(tmp) ==
  LET at == SelectSeq([i \in 1..Len(tmp) |-> i], LAMBDA i : i >= 2 /\ tmp[i] = SLASH)
  IN  [j \in 1..(Len(at) + 1) |-> IF j <= Len(at) THEN SubSeq(tmp, 1, at[j] - 1) ELSE tmp]

\* A worker at the start of a backend STORE, of a backend DEL, of a removef
\* of a .c file in the dispatcher, and of an uploadf of a .c file.
StoreWorker(tier, path, payload) ==
  [verb |-> "STORE", tier |-> tier,
   fullPath |-> BasePath(tier) \o <<SLASH>> \o RelPath(tier, path),
   payload |-> payload, pc |-> "mkdir", k |-> 1, dir |-> <<>>, resp |-> "none"]
DelWorker(tier, path) ==
  [verb |-> "DEL", tier |-> tier,
   fullPath |-> BasePath(tier) \o <<SLASH>> \o RelPath(tier, path),
   payload |-> <<>>, pc |-> "unlink", k |-> 1, dir |-> <<>>, resp |-> "none"]
RemoveWorker(filePath) ==
  [verb |-> "removef", tier |-> S1,
   fullPath |-> BasePath(S1) \o <<SLASH>> \o SubPath(filePath),
   payload |-> <<>>, pc |-> "unlink", k |-> 1, dir |-> <<>>, resp |-> "none"]
UploadWorker(filename, destPath, payload) ==
  [verb |-> "uploadf", tier |-> S1,
   fullPath |-> Join(BasePath(S1), SubPath(destPath)) \o <<SLASH>> \o filename,
   payload |-> payload, pc |-> "stat", k |-> 0,
   dir |-> Join(BasePath(S1), SubPath(destPath)), resp |-> "none"]

\* The requests that meet, with the filesystem they meet in: one in which
\* the files to delete were stored before.
StoredBefore(tier, path) == STORE(Init_fs, tier, path, 1, <<"x">>, FALSE).fs
UploadedBefore(filename, destPath) ==
  handle_upload(Init_fs, filename, destPath, 1, <<"x">>, <<"x">>, "none").fs
Races ==
  {[fs |-> StoredBefore(S3, docs \o <<SLASH>> \o sub \o <<SLASH>> \o notes_txt),
    workers |-> <<StoreWorker(S3, docs \o <<SLASH>> \o notes_txt, b),
                  DelWorker(S3, docs \o <<SLASH>> \o sub \o <<SLASH>> \o notes_txt)>>] :
     b \in Payloads}
    \cup {[fs |-> StoredBefore(S3, docs \o <<SLASH>> \o notes_txt),
           workers |-> <<StoreWorker(S3, docs \o <<SLASH>> \o sub \o <<SLASH>> \o notes_txt, b),
                         DelWorker(S3, docs \o <<SLASH>> \o notes_txt)>>] :
            b \in Payloads}
    \cup {[fs |-> StoredBefore(S2, docs \o <<SLASH>> \o hidden_pdf),
           workers |-> <<StoreWorker(S2, docs \o <<SLASH>> \o a_pdf, b),
                         DelWorker(S2, docs \o <<SLASH>> \o hidden_pdf)>>] :
            b \in Payloads}
    \cup {[fs |-> Init_fs,
           workers |-> <<StoreWorker(S2, docs \o <<SLASH>> \o a_pdf, b),
                         StoreWorker(S2, docs \o <<SLASH>> \o hidden_pdf, <<"x">>)>>] :
            b \in Payloads}
    \cup {[fs |-> Init_fs,
           workers |-> <<UploadWorker(a_c, d, b), UploadWorker(hidden_c, V_SUB, <<"x">>)>>] :
            b \in Payloads, d \in {V_DOCS, V_SUB}}
    \cup {[fs |-> UploadedBefore(hidden_c, V_SUB),
           workers |-> <<UploadWorker(a_c, d, b),
                         RemoveWorker(V_SUB \o <<SLASH>> \o hidden_c)>>] :
            b \in Payloads, d \in {V_DOCS, V_SUB}}

RaceInit ==
  /\ \E r \in Races : fs = r.fs /\ workers = r.workers
  /\ acked = <<>>
  /\ last = [op |-> "none", arg |-> <<>>, resp |-> "TEXT"]
  /\ faults = 0

\* Worker w moves on; the other worker and the bookkeeping of the sequential
\* commands stay as they are.
Moves(w, next) ==
  /\ workers' = [workers EXCEPT ![w] = next]
  /\ UNCHANGED <<acked, last, faults>>
Answers(w, resp) == Moves(w, [workers[w] EXCEPT !.pc = "done", !.resp = resp])

\* STORE: one mkdir of the loop; its result is ignored.
StoreMkdir(w) ==
  LET me == workers[w]
      pre == Prefixes(CutAtLastSlash(me.fullPath))
  IN  /\ me.verb = "STORE" /\ me.pc = "mkdir"
      /\ fs' = mkdir(fs, pre[me.k])
      /\ Moves(w, IF me.k = Len(pre) THEN [me EXCEPT !.pc = "fopen"]
                  ELSE [me EXCEPT !.k = me.k + 1])

\* STORE: fopen(fullPath, "wb"); ERROR when it fails.
StoreFopen(w) ==
  LET me == workers[w]
  IN  /\ me.verb = "STORE" /\ me.pc = "fopen"
      /\ IF fopen_wb_ok(fs, me.fullPath)
         THEN fs' = fopen_wb(fs, me.fullPath) /\ Moves(w, [me EXCEPT !.pc = "recv"])
         ELSE UNCHANGED fs /\ Answers(w, "ERROR")

\* STORE: the bytes arrive and are written, the file is closed, SUCCESS.
StoreRecv(w) ==
  LET me == workers[w]
  IN  /\ me.verb = "STORE" /\ me.pc = "recv"
      /\ fs' = fwrite(fs, me.fullPath, me.payload)
      /\ Answers(w, "SUCCESS")

\* Where a pruning loop goes from directory dir: it ends at the base path.
PruneAt(me, dir) ==
  IF dir = BasePath(me.tier) THEN [me EXCEPT !.pc = "done", !.dir = dir]
  ELSE [me EXCEPT !.pc = "rmdir", !.dir = dir]

\* DEL and removef: the unlink, which decides the response; a removef whose
\* unlink fails returns at once.
Unlink(w) ==
  LET me == workers[w]
      resp == IF unlink_ok(fs, me.fullPath) THEN "SUCCESS" ELSE "ERROR"
  IN  /\ me.verb \in {"DEL", "removef"} /\ me.pc = "unlink"
      /\ fs' = unlink(fs, me.fullPath)
      /\ Moves(w, IF me.verb = "removef" /\ resp = "ERROR"
                  THEN [me EXCEPT !.pc = "done", !.resp = resp]
                  ELSE [PruneAt(me, CutAtLastSlash(me.fullPath)) EXCEPT !.resp = resp])

\* DEL and removef: one rmdir of the pruning loop; the loop stops when it
\* fails.
Rmdir(w) ==
  LET me == workers[w]
  IN  /\ me.pc = "rmdir"
      /\ fs' = rmdir(fs, me.dir)
      /\ Moves(w, IF rmdir_ok(fs, me.dir) THEN PruneAt(me, CutAtLastSlash(me.dir))
                  ELSE [me EXCEPT !.pc = "done"])

\* Where ensure_directory_exists goes after prefix k: to the next prefix, or
\* back to handle_upload, which opens the file.
EnsureNext(me) ==
  IF me.k = Len(Prefixes(me.dir)) THEN [me EXCEPT !.pc = "fopen"]
  ELSE [me EXCEPT !.pc = "stat", !.k = me.k + 1]

\* ensure_directory_exists: the stat of the whole path (k = 0) and of a
\* prefix; -1 for something that is no directory, and handle_upload then
\* drains the payload and fails.
EnsureStat(w) ==
  LET me == workers[w]
      path == IF me.k = 0 THEN me.dir ELSE Prefixes(me.dir)[me.k]
  IN  /\ me.verb = "uploadf" /\ me.pc = "stat"
      /\ UNCHANGED fs
      /\ IF stat_ok(fs, path)
         THEN IF ~S_ISDIR(fs, path) THEN Answers(w, "ERROR")
              ELSE IF me.k = 0 THEN Moves(w, [me EXCEPT !.pc = "fopen"])
              ELSE Moves(w, EnsureNext(me))
         ELSE IF me.k = 0 THEN Moves(w, [me EXCEPT !.k = 1])
              ELSE Moves(w, [me EXCEPT !.pc = "mkdir"])

\* ensure_directory_exists: the mkdir after a stat that found nothing; -1
\* when it fails, whatever the reason.
EnsureMkdir(w) ==
  LET me == workers[w]
      path == Prefixes(me.dir)[me.k]
  IN  /\ me.verb = "uploadf" /\ me.pc = "mkdir"
      /\ fs' = mkdir(fs, path)
      /\ IF CanMkdir(fs, Lookup(path)) THEN Moves(w, EnsureNext(me))
         ELSE Answers(w, "ERROR")

\* handle_upload: fopen(fullPath, "wb"); the payload is drained and the
\* upload fails when it fails.
UploadFopen(w) ==
  LET me == workers[w]
  IN  /\ me.verb = "uploadf" /\ me.pc = "fopen"
      /\ IF fopen_wb_ok(fs, me.fullPath)
         THEN fs' = fopen_wb(fs, me.fullPath) /\ Moves(w, [me EXCEPT !.pc = "recv"])
         ELSE UNCHANGED fs /\ Answers(w, "ERROR")

\* handle_upload: the payload is received into the file; a .c file stays
\* where it is and the upload has succeeded.
UploadRecv(w) ==
  LET me == workers[w]
  IN  /\ me.verb = "uploadf" /\ me.pc = "recv"
      /\ fs' = fwrite(fs, me.fullPath, me.payload)
      /\ Answers(w, "SUCCESS")

\* Two requests meet.
Workers == {1, 2}

RaceNext ==
  \/ \E w \in Workers : StoreMkdir(w)
  \/ \E w \in Workers : StoreFopen(w)
  \/ \E w \in Workers : StoreRecv(w)
  \/ \E w \in Workers : Unlink(w)
  \/ \E w \in Workers : Rmdir(w)
  \/ \E w \in Workers : EnsureStat(w)
  \/ \E w \in Workers : EnsureMkdir(w)
  \/ \E w \in Workers : UploadFopen(w)
  \/ \E w \in Workers : UploadRecv(w)

Race == RaceInit /\ [][RaceNext]_vars

(***************************************************************************)
(* Properties.                                                             *)
(***************************************************************************)
\* The extension of the file at a virtual location, the tier its class is
\* stored in, and the physical location of a virtual one in a tier.
ExtOf(loc) == strrchr(loc[Len(loc)], DOT)
HomeTier(loc) == IF strcmp(ExtOf(loc), EXT_C) = 0 THEN S1 ELSE UploadServer(ExtOf(loc))
Physical(tier, loc) == Root(tier) \o loc
\* The file of virtual path p is in the tier of its class.
Stored(f, p) == IsFile(f, Physical(HomeTier(VLoc(p)), VLoc(p)))

\* C1: for every extension class, once an uploadf of content B was answered
\* with SUCCESS, a downlf of the same virtual path answers with the size
\* line |B| followed by exactly the bytes B.
C1_UploadThenDownload ==
  \A p \in VPaths :
    VLoc(p) \in DOMAIN acked =>
      handle_download(fs, p, "none") = SizedReply(acked[VLoc(p)])

\* C2: after an uploadf of a .pdf, .txt or .zip file was answered with
\* SUCCESS, there is no file at the corresponding physical path under ~/S1.
C2_NoLocalCopy ==
  (/\ last.op = "uploadf" /\ last.resp = "SUCCESS"
   /\ HomeTier(last.arg) \in Backends)
    => ~IsFile(fs, Physical(S1, last.arg))
\* Such an upload was served and its file is in the tier of its class.
C2_Witness ==
  /\ last.op = "uploadf" /\ last.resp = "SUCCESS"
  /\ HomeTier(last.arg) \in Backends
  /\ IsFile(fs, Physical(HomeTier(last.arg), last.arg))

\* The ways an uploadf of payload can fail on its way: what the client
\* delivered, what reached the backend, and the fault between the servers.
UploadFailures(payload) ==
  {<<d, <<>>, "none">> : d \in Cuts(payload)}
    \cup {<<payload, a, "forward">> : a \in Cuts(payload)}
    \cup {<<payload, payload, x>> : x \in UploadFaults \ {"forward"}}

\* C3: after an uploadf of a .pdf, .txt or .zip file ends in failure, whatever
\* the cause, no file exists at its path under the dispatcher's root nor
\* under the backend's root.
C3_FailedUploadLeavesNothing ==
  \A u \in Uploads, payload \in Payloads :
    UploadServer(strrchr(u[1], DOT)) # <<>> =>
      \A c \in UploadFailures(payload) :
        LET r == handle_upload(fs, u[1], u[2], Len(payload), c[1], c[2], c[3])
            loc == VLocIn(u[2], u[1])
        IN  r.ret # 0 =>
              /\ ~IsFile(r.fs, Physical(S1, loc))
              /\ ~IsFile(r.fs, Physical(HomeTier(loc), loc))

\* C4: for every extension class, after a removef of a stored file, a downlf
\* of the same path is answered with the not-found error.
C4_RemoveThenDownload ==
  \A p \in VPaths :
    Stored(fs, p) =>
      handle_download(handle_remove(fs, p, "none").fs, p, "none").line = L_NOT_FOUND

\* The step was a removef answered with SUCCESS whose file a backend held.
RemovedAtBackend ==
  /\ last'.op = "removef" /\ last'.resp = "SUCCESS"
  /\ HomeTier(last'.arg) \in Backends

Names(reply) == Tokens(reply.data, NL)
Range(seq) == {seq[i] : i \in DOMAIN seq}

OnlyNotes(f) ==
  /\ DOMAIN f.files = {Physical(S3, VLocIn(V_DOCS, notes_txt))}
  /\ f.dirs = {<<>>, <<Tail(HOME)>>} \cup {Root(t) : t \in Tiers} \cup {Physical(S3, <<docs>>)}

\* C7: from tiers that hold nothing but notes.txt under ~S1/docs, after a
\* removef of that file succeeds, a dispfnames of the root ~S1 answers
\* "No files found" and docs no longer exists under the text tier's root.
C7_RemoveLeavesNothing ==
  [][(/\ OnlyNotes(fs)
      /\ last'.op = "removef" /\ last'.resp = "SUCCESS"
      /\ last'.arg = VLocIn(V_DOCS, notes_txt)) =>
       /\ ~IsDir(fs', Physical(S3, <<docs>>))
       /\ \A up \in SUBSET Backends : \A orders \in ScanOrders(fs', V_ROOT) :
            handle_dispfnames(fs', V_ROOT, up, orders) = Reply(L_NO_FILES)]_vars
\* The removef of notes.txt has just succeeded and left the tiers as they
\* were before any upload.
C7_Witness ==
  /\ last = [op |-> "removef", arg |-> VLocIn(V_DOCS, notes_txt), resp |-> "SUCCESS"]
  /\ fs.files = <<>>
  /\ fs.dirs = {<<>>, <<Tail(HOME)>>} \cup {Root(t) : t \in Tiers}

\* The place of a name's extension class in the order .c, .pdf, .txt, .zip.
Rank(name) ==
  LET e == strrchr(name, DOT)
  IN  CASE e = EXT_C -> 1 [] e = EXT_PDF -> 2 [] e = EXT_TXT -> 3 [] e = EXT_ZIP -> 4
        [] OTHER -> 0
GroupedAndSorted(names) ==
  \A i, j \in 1..Len(names) :
    i < j =>
      /\ Rank(names[i]) \in 1..4 /\ Rank(names[j]) \in 1..4
      /\ \/ Rank(names[i]) < Rank(names[j])
         \/ Rank(names[i]) = Rank(names[j]) /\ strcmp(names[i], names[j]) <= 0

\* C8: the payload of dispfnames is the four groups in the order .c, .pdf,
\* .txt, .zip, each sorted by strcmp, whichever backends fail and in whatever
\* order the directories were read.
C8_GroupedAndSorted ==
  \A dir \in VDirs, up \in SUBSET Backends :
    \A o1 \in ScanOrders(fs, dir) :
      /\ GroupedAndSorted(Names(handle_dispfnames(fs, dir, up, o1)))
      /\ \A o2 \in ScanOrders(fs, dir) :
           handle_dispfnames(fs, dir, up, o2) = handle_dispfnames(fs, dir, up, o1)
\* Two .c files are in docs and a dispfnames has answered with a list.
C8_Witness ==
  /\ IsFile(fs, Physical(S1, <<docs, a_c>>))
  /\ IsFile(fs, Physical(S1, <<docs, hidden_c>>))
  /\ last.op = "dispfnames" /\ last.resp = "SIZE"

\* The names of the files stored immediately in the directory dir: the files
\* of each tier's copy of dir that are of the tier's class.
StoredIn(f, dir) ==
  {q \in DOMAIN f.files :
     \E t \in Tiers : Parent(q) = Physical(t, VLoc(dir)) /\ HomeTier(<<q[Len(q)]>>) = t}
NamesStoredIn(f, dir) == {q[Len(q)] : q \in StoredIn(f, dir)}
\* The same without the hidden names the backends leave out.
NamesShownIn(f, dir) ==
  {q[Len(q)] : q \in {x \in StoredIn(f, dir) :
                        HomeTier(<<x[Len(x)]>>) = S1 \/ x[Len(x)][1] # DOT}}

C10_EmptyArchive ==
  \A fileType \in {EXT_C, EXT_PDF, EXT_TXT}, toolStatus \in {0, 123} :
    TarMembers(fs, fileType) = {} =>
      LET r == handle_downltar(fs, fileType, "none", <<>>, toolStatus)
      IN  /\ Class(r.line) = "SIZE"
          /\ r.line = ToDec(Len(r.data))
          /\ r.data \in {<<>>, <<EOA>>}
\* No file is stored and a downltar has been answered with a size line.
C10_Witness ==
  /\ fs.files = <<>>
  /\ last.op = "downltar" /\ last.resp = "SIZE"

\* The bytes a client sends for a command: a line of words, and an uploadf
\* line followed by its payload.
Line(verb, arg) == verb \o <<SP>> \o arg \o <<NL>>
UploadLine(name, dir, payload) ==
  W_uploadf \o <<SP>> \o name \o <<SP>> \o dir \o <<SP>> \o ToDec(Len(payload)) \o <<NL>>
    \o payload

\* C11: an uploadf of a file name without an extension, or with one outside
\* .c, .pdf, .txt and .zip, whose payload the client delivers is rejected: the
\* client gets an ERROR line, the command adds no file and no file is at the
\* destination in any tier afterwards, and the next command on the connection
\* (a downlf) is answered as it would have been on its own.
C11_RejectedUpload ==
  \A name \in {readme, a_exe}, dir \in VDirs, payload \in Payloads :
  \A p \in {V_DOCS \o <<SLASH>> \o a_c, V_ROOT \o <<SLASH>> \o a_pdf} :
    \A r \in prcclient(fs, UploadLine(name, dir, payload) \o Line(W_downlf, p), <<>>) :
      /\ Len(r.out) = 2
      /\ HasPrefix(r.out[1].line, L_ERROR \o <<":">>) /\ r.out[1].data = <<>>
      /\ DOMAIN r.fs.files \subseteq DOMAIN fs.files
      /\ \A t \in Tiers : ~IsFile(r.fs, Physical(t, VLocIn(dir, name)))
      /\ r.out[2] = handle_download(r.fs, p, "none")
\* With files stored and nothing gone wrong so far, an uploadf has been
\* answered with an ERROR line: its file name was not accepted.
C11_Witness ==
  /\ last.op = "uploadf" /\ last.resp = "ERROR" /\ faults = 0
  /\ fs.files # <<>>

\* The uploads whose directory or file cannot be created: into a path that
\* is a regular file, and of a name that is the directory itself.
BlockedUploads == {<<a_c, V_DOCS \o <<SLASH>> \o a_c>>, <<<<DOT>>, V_ROOT>>}
\* What can go wrong between the servers, or nothing, while the client
\* delivers all of payload: what reaches the backend, and the fault.
Forwardings(payload) ==
  {<<payload, "none">>}
    \cup {<<a, "forward">> : a \in Cuts(payload)}
    \cup {<<payload, x>> : x \in UploadFaults \ {"forward"}}

\* C12: whatever the outcome of an uploadf whose payload the client delivers
\* in full (success, unrecognized extension, directory or file creation
\* failure, backend failure), the dispatcher has consumed exactly sizeBytes
\* bytes of payload when it answers.
C12_PayloadConsumed ==
  \A u \in Uploads \cup BlockedUploads, payload \in Payloads :
    \A c \in Forwardings(payload) :
      handle_upload(fs, u[1], u[2], Len(payload), payload, c[1], c[2]).consumed
        = Len(payload)
\* a.c is stored in docs, so that an upload into ~S1/docs/a.c cannot create
\* its directory, and an uploadf with a payload of one byte has succeeded.
C12_Witness ==
  /\ IsFile(fs, Physical(S1, <<docs, a_c>>))
  /\ handle_upload(fs, a_c, V_DOCS \o <<SLASH>> \o a_c, 1, <<"x">>, <<"x">>, "none").ret = -1
  /\ last.op = "uploadf" /\ last.resp = "SUCCESS"
  /\ Len(acked[last.arg]) = 1

\* C13: every size line sent in answer to downlf or downltar is followed by
\* exactly that many payload bytes, also when the connection to the backend
\* fails while the payload is relayed.
C13_SizeThenBytes ==
  /\ \A p \in VPaths, fault \in {"none", "relay"} :
       LET r == handle_download(fs, p, fault)
       IN  Class(r.line) = "SIZE" => Len(r.data) = atol(r.line)
  /\ \A fileType \in FileTypes, fault \in {"none", "relay"}, toolStatus \in {0, 123} :
       \A order \in Orders(TarMembers(fs, fileType)) :
         LET r == handle_downltar(fs, fileType, fault, order, toolStatus)
         IN  Class(r.line) = "SIZE" => Len(r.data) = atol(r.line)

\* The commands of a session, and what the handler of each one answers in
\* filesystem f: the filesystem it leaves and its response.
Commands ==
  {[verb |-> "uploadf", name |-> u[1], dir |-> u[2], payload |-> b] :
     u \in {<<a_c, V_DOCS>>, <<a_pdf, V_ROOT>>}, b \in Payloads}
    \cup {[verb |-> v, path |-> p] :
            v \in {"downlf", "removef"},
            p \in {V_DOCS \o <<SLASH>> \o a_c, V_ROOT \o <<SLASH>> \o a_pdf}}
Wire(c) ==
  CASE c.verb = "uploadf" -> UploadLine(c.name, c.dir, c.payload)
    [] c.verb = "downlf" -> Line(W_downlf, c.path)
    [] c.verb = "removef" -> Line(W_removef, c.path)
Handled(f, c) ==
  CASE c.verb = "uploadf" ->
         LET r == handle_upload(f, c.name, c.dir, Len(c.payload), c.payload, c.payload, "none")
         IN  [fs |-> r.fs, reply |-> Reply(UploadAnswer(r.ret))]
    [] c.verb = "downlf" -> [fs |-> f, reply |-> handle_download(f, c.path, "none")]
    [] c.verb = "removef" ->
         LET r == handle_remove(f, c.path, "none")
         IN  [fs |-> r.fs, reply |-> Reply(RemoveAnswer(r.ret))]

\* C14: the commands of one connection are handled one at a time: for any
\* two commands sent back to back, the client receives exactly two responses,
\* the first command's and then the second's, the second computed in the
\* filesystem the first one left.
C14_OneAtATime ==
  \A c1 \in Commands, c2 \in Commands :
    LET e1 == Handled(fs, c1)
        e2 == Handled(e1.fs, c2)
    IN  prcclient(fs, Wire(c1) \o Wire(c2), <<>>)
          = {[fs |-> e2.fs, out |-> <<e1.reply, e2.reply>>]}
\* a.pdf has been stored, and a session that downloads it and then
\* removes it gets its bytes first and the SUCCESS of the removal second.
C14_Witness ==
  /\ <<a_pdf>> \in DOMAIN acked
  /\ acked[<<a_pdf>>] # <<>>
  /\ \E r \in prcclient(fs, Line(W_downlf, V_ROOT \o <<SLASH>> \o a_pdf)
                              \o Line(W_removef, V_ROOT \o <<SLASH>> \o a_pdf), <<>>) :
       /\ Len(r.out) = 2
       /\ r.out[1] = SizedReply(acked[<<a_pdf>>])
       /\ Class(r.out[2].line) = "SUCCESS"
       /\ ~IsFile(r.fs, Physical(S2, <<a_pdf>>))

\* The lines that lack a required token, and one with an unknown verb.
Malformed ==
  {W_uploadf \o <<NL>>,
   W_uploadf \o <<SP>> \o a_c \o <<NL>>,
   W_uploadf \o <<SP>> \o a_c \o <<SP>> \o V_DOCS \o <<NL>>,
   W_downlf \o <<NL>>, W_removef \o <<NL>>, W_downltar \o <<NL>>,
   W_dispfnames \o <<NL>>, W_dispfnames \o <<SP, NL>>,
   <<"l", "s">> \o <<SP>> \o V_DOCS \o <<NL>>}

\* C15: a command that lacks a required token, or whose verb is unknown, is
\* answered with one ERROR line and changes nothing, and the command that
\* follows it on the connection is answered as it would have been on its own.
C15_MalformedAnswered ==
  \A bad \in Malformed, c \in Commands :
    LET e == Handled(fs, c)
    IN  \A r \in prcclient(fs, bad \o Wire(c), <<>>) :
          /\ Len(r.out) = 2
          /\ HasPrefix(r.out[1].line, L_ERROR \o <<":">>) /\ r.out[1].data = <<>>
          /\ r.out[2] = e.reply
          /\ r.fs = e.fs
\* a.c is stored in docs, and a session that sends a bare downlf and then a
\* downlf of a.c gets an ERROR line and then the file.
C15_Witness ==
  /\ <<docs, a_c>> \in DOMAIN acked
  /\ acked[<<docs, a_c>>] # <<>>
  /\ \E r \in prcclient(fs, W_downlf \o <<NL>> \o Line(W_downlf, V_DOCS \o <<SLASH>> \o a_c), <<>>) :
       /\ Len(r.out) = 2
       /\ Class(r.out[1].line) = "ERROR"
       /\ r.out[2] = SizedReply(acked[<<docs, a_c>>])

\* What filesystem f holds under the root of a tier.
TierPart(f, tier) ==
  [dirs |-> {d \in f.dirs : UnderRoot(tier, d)},
   files |-> [q \in {q \in DOMAIN f.files : UnderRoot(tier, q)} |-> f.files[q]]]
\* The backend that owns an extension class.
Owner(ext) ==
  CASE ext = EXT_PDF -> S2
    [] ext = EXT_TXT -> S3
    [] ext = EXT_ZIP -> S4

\* C16: an uploadf of a .c file sends no request to a backend and leaves
\* every backend's tier as it was; an uploadf of a .pdf, .txt or .zip file
\* sends STORE requests to S2, S3 or S4 respectively and to nobody else,
\* exactly one when nothing goes wrong between the servers and never more
\* than one, and leaves the other backends' tiers as they were.
C16_OneOwner ==
  \A u \in {u \in Uploads : strrchr(u[1], DOT) \in FileTypes}, payload \in Payloads :
    \A c \in Forwardings(payload) :
      LET ext == strrchr(u[1], DOT)
          r == handle_upload(fs, u[1], u[2], Len(payload), payload, c[1], c[2])
      IN  /\ ext = EXT_C =>
               /\ r.requests = <<>>
               /\ \A t \in Backends : TierPart(r.fs, t) = TierPart(fs, t)
               /\ r.ret = 0 /\ IsFile(r.fs, Physical(S1, VLocIn(u[2], u[1])))
          /\ ext \in {EXT_PDF, EXT_TXT, EXT_ZIP} =>
               /\ Len(r.requests) <= 1
               /\ \A i \in DOMAIN r.requests :
                    r.requests[i].to = Owner(ext) /\ r.requests[i].verb = "STORE"
               /\ c[2] = "none" => Len(r.requests) = 1 /\ r.ret = 0
               /\ \A t \in Backends \ {Owner(ext)} : TierPart(r.fs, t) = TierPart(fs, t)
               /\ r.ret = 0 => /\ IsFile(r.fs, Physical(Owner(ext), VLocIn(u[2], u[1])))
                               /\ ~IsFile(r.fs, Physical(S1, VLocIn(u[2], u[1])))
\* An uploadf of notes.txt into docs has succeeded with a.pdf already
\* stored: the file is under ~/S3 and only there.
C16_Witness ==
  /\ last.op = "uploadf" /\ last.resp = "SUCCESS" /\ last.arg = <<docs, notes_txt>>
  /\ IsFile(fs, Physical(S3, last.arg))
  /\ \A t \in Tiers \ {S3} : ~IsFile(fs, Physical(t, last.arg))
  /\ IsFile(fs, Physical(S2, <<a_pdf>>))

\* C17: a downlf of a path at which no file is stored answers with an
\* ERROR line and no payload bytes, for dispatcher-held and for backend-held
\* paths.
C17_MissingFileIsError ==
  \A p \in VPaths :
    ~Stored(fs, p) =>
      LET r == handle_download(fs, p, "none")
      IN  HasPrefix(r.line, L_ERROR \o <<":">>) /\ r.data = <<>>
\* With a .c file and a .pdf file stored and nothing gone wrong between the
\* servers, a downlf has been answered with an ERROR line, and the downlf of
\* a missing .c path and of a missing .txt path would be.
C17_Witness ==
  /\ last.op = "downlf" /\ last.resp = "ERROR" /\ faults = 0
  /\ \E p \in VPaths : Stored(fs, p) /\ HomeTier(VLoc(p)) = S1
  /\ \E p \in VPaths : Stored(fs, p) /\ HomeTier(VLoc(p)) = S2
  /\ \E p \in VPaths :
       /\ ~Stored(fs, p) /\ HomeTier(VLoc(p)) = S1
       /\ Class(handle_download(fs, p, "none").line) = "ERROR"
  /\ \E p \in VPaths :
       /\ ~Stored(fs, p) /\ HomeTier(VLoc(p)) = S3
       /\ Class(handle_download(fs, p, "none").line) = "ERROR"

\* C18: a dispfnames whose four groups are all empty answers "No files
\* found"; no dispfnames answers with a size line of 0; a size line it sends
\* is positive and is the number of payload bytes that follow.
C18_NoFilesFound ==
  \A dir \in VDirs, up \in SUBSET Backends :
    \A orders \in ScanOrders(fs, dir) :
      LET g == Groups(fs, dir, up, orders)
          r == handle_dispfnames(fs, dir, up, orders)
      IN  /\ g[1] \o g[2] \o g[3] \o g[4] = <<>> => r = Reply(L_NO_FILES)
          /\ r.line # <<"0">>
          /\ Class(r.line) = "SIZE" => atol(r.line) > 0 /\ atol(r.line) = Len(r.data)
\* With files stored, a dispfnames of a directory that holds none has been
\* answered with "No files found".
C18_Witness ==
  /\ last.op = "dispfnames" /\ last.resp = "TEXT" /\ faults = 0
  /\ fs.files # <<>>
  /\ \E dir \in VDirs : \E orders \in ScanOrders(fs, dir) :
       handle_dispfnames(fs, dir, Backends, orders) = Reply(L_NO_FILES)

\* A line that starts with the ERROR: marker, and the responses a client can
\* tell apart: an ERROR: line, a SUCCESS: line, a decimal size line, and
\* "No files found".
ErrorLine(line) == HasPrefix(line, L_ERROR \o <<":">>)
Marked(line) ==
  \/ ErrorLine(line)
  \/ HasPrefix(line, L_SUCCESS \o <<":">>)
  \/ line # <<>> /\ \A i \in DOMAIN line : IsDigit(line[i])
  \/ line = L_NO_FILES
\* A response is well marked: its line is one of the four kinds, and a line
\* that reports an error begins with "ERROR:" and has no payload after it.
WellMarked(r) ==
  /\ Marked(r.line)
  /\ HasPrefix(r.line, L_ERROR) => ErrorLine(r.line) /\ r.data = <<>>

\* C19: every response the dispatcher sends (of downlf, downltar and
\* dispfnames with and without faults between the servers, of uploadf and
\* removef, of a malformed line) is an ERROR: line, a SUCCESS: line, a size
\* line or "No files found"; a response that reports an error, whatever the
\* command and the cause, an error line relayed from a backend included, is a
\* single line that begins with "ERROR:", with no payload; a failed uploadf or
\* removef is answered with such a line.
C19_ErrorsAreMarked ==
  /\ \A p \in VPaths, x \in {"none", "connect", "relay"} :
       WellMarked(handle_download(fs, p, x))
  /\ \A t \in FileTypes \cup {<<DOT, "h">>}, x \in {"none", "connect", "relay"} :
       \A toolStatus \in {0, 123}, o \in Orders(TarMembers(fs, t)) :
         WellMarked(handle_downltar(fs, t, x, o, toolStatus))
  /\ \A d \in VDirs, up \in SUBSET Backends :
       \A o \in ScanOrders(fs, d) : WellMarked(handle_dispfnames(fs, d, up, o))
  /\ \A ret \in {0, -1} :
       WellMarked(Reply(UploadAnswer(ret))) /\ WellMarked(Reply(RemoveAnswer(ret)))
  /\ \A bad \in Malformed :
       \A r \in prcclient(fs, bad, <<>>) : Len(r.out) = 1 /\ WellMarked(r.out[1])
  /\ ErrorLine(UploadAnswer(-1)) /\ ErrorLine(RemoveAnswer(-1))
\* With no file stored and nothing gone wrong between the servers, a downlf
\* has been answered with an ERROR line.
C19_Witness ==
  /\ last.op = "downlf" /\ last.resp = "ERROR" /\ faults = 0
  /\ fs.files = <<>>

\* What a client other than the uploader can ask: about file paths other
\* than loc, about directories and about archives.
OtherResponses(f, loc) ==
  [downlf |-> [p \in {p \in VPaths : VLoc(p) # loc} |-> handle_download(f, p, "none")],
   dispfnames |-> [d \in VDirs |->
                     {handle_dispfnames(f, d, Backends, o) : o \in ScanOrders(f, d)}],
   downltar |-> [t \in FileTypes |->
                   {handle_downltar(f, t, "none", o, 0) : o \in Orders(TarMembers(f, t))}]]

\* C20: a client that disconnects in the middle of an uploadf payload changes
\* none of the responses another client receives for its commands on other
\* paths.
C20_DisconnectUnseen ==
  \A u \in Uploads, payload \in Payloads :
    \A delivered \in Cuts(payload) :
      LET loc == VLocIn(u[2], u[1])
          g == handle_upload(fs, u[1], u[2], Len(payload), delivered, <<>>, "none").fs
      IN  OtherResponses(g, loc) = OtherResponses(fs, loc)

\* Worker w has finished with SUCCESS and its file holds its payload.
StoredInFull(w) ==
  /\ workers[w].resp = "SUCCESS"
  /\ IsFile(fs, Lookup(workers[w].fullPath))
  /\ fs.files[Lookup(workers[w].fullPath)] = workers[w].payload

\* C21: a backend STORE that runs at the same time as a DEL of another path
\* in the same, an ancestor or a descendant directory answers SUCCESS and
\* leaves its file stored with its full content, however the system calls of
\* the two interleave.
C21_StoreBesideDel ==
  \A w \in DOMAIN workers, v \in DOMAIN workers :
    (/\ workers[w].verb = "STORE" /\ workers[v].verb = "DEL"
     /\ workers[w].pc = "done")
      => StoredInFull(w)

\* C22: when two uploads (or two STOREs) create the same missing directories
\* at the same time both succeed, and a removal whose pruning meets a
\* directory that is not empty still succeeds.
C22_CreateAndPruneRace ==
  /\ \A w \in DOMAIN workers, v \in DOMAIN workers :
       (/\ w # v /\ workers[w].verb \in {"uploadf", "STORE"}
        /\ workers[v].verb = workers[w].verb
        /\ workers[w].pc = "done")
         => StoredInFull(w)
  /\ \A w \in DOMAIN workers :
       (workers[w].verb \in {"DEL", "removef"} /\ workers[w].pc = "done")
         => workers[w].resp = "SUCCESS"

\* C23: when the peer disconnects in the middle of an upload payload (the
\* client during uploadf, or the dispatcher during STORE), no file is left at
\* the path in any tier, provided none was there before.
C23_NoPartialFile ==
  \A u \in {u \in Uploads : strrchr(u[1], DOT) \in FileTypes}, payload \in Payloads :
    \A delivered \in Cuts(payload) :
      LET loc == VLocIn(u[2], u[1])
          cut == handle_upload(fs, u[1], u[2], Len(payload), delivered, <<>>, "none")
          fwd == handle_upload(fs, u[1], u[2], Len(payload), payload, delivered, "forward")
      IN  (\A t \in Tiers : ~IsFile(fs, Physical(t, loc))) =>
            \A t \in Tiers :
              /\ ~IsFile(cut.fs, Physical(t, loc))
              /\ strcmp(strrchr(u[1], DOT), EXT_C) # 0 => ~IsFile(fwd.fs, Physical(t, loc))

\* The tier-relative paths a backend is sent.
RelPaths == {SubPath(p) : p \in VPaths}

\* C24: a backend STORE that can open its file and receives fewer bytes than
\* declared answers ERROR and leaves no file at the path; one that receives
\* all of them answers SUCCESS and the file holds exactly those bytes.
C24_StoreAllOrNothing ==
  \A tier \in Backends, path \in RelPaths, payload \in Payloads :
    LET at == Lookup(BasePath(tier) \o <<SLASH>> \o path)
        full == STORE(fs, tier, path, Len(payload), payload, FALSE)
    IN  /\ full.sent = <<L_SUCCESS>>
        /\ IsFile(full.fs, at) /\ full.fs.files[at] = payload
        /\ \A arrived \in Cuts(payload) :
             LET short == STORE(fs, tier, path, Len(payload), arrived, FALSE)
             IN  short.sent = <<L_ERROR>> /\ ~IsFile(short.fs, at)
\* An uploadf of a.pdf with a one-byte payload has succeeded: S2 received
\* the byte, answered SUCCESS and holds it; a STORE of the same path that
\* breaks off would remove the file.
C24_Witness ==
  /\ last = [op |-> "uploadf", arg |-> <<a_pdf>>, resp |-> "SUCCESS"]
  /\ IsFile(fs, Physical(S2, <<a_pdf>>))
  /\ fs.files[Physical(S2, <<a_pdf>>)] = <<"x">>
  /\ ~IsFile(STORE(fs, S2, a_pdf, 1, <<>>, FALSE).fs, Physical(S2, <<a_pdf>>))

RECURSIVE NameList(_)
NameList(order) ==
  IF order = <<>> THEN <<>>
  ELSE IF Head(order).d_type = "DT_REG" /\ Head(order).d_name[1] # DOT
       THEN Head(order).d_name \o <<NL>> \o NameList(Tail(order))
       ELSE NameList(Tail(order))
\* LIST of directory path in tier answers as it should in filesystem f, when
\* readdir returns the entries in the given order: what follows the size line
\* is the list of some of the regular, non-hidden files of the directory.
ListsRegularFiles(f, tier, path, order) ==
  LET r == LIST(f, tier, path, order)
      dir == Lookup(ListDir(tier, path))
  IN  IF ~IsDir(f, dir) THEN r = Reply(<<"0">>)
      ELSE /\ r.line = ToDec(Len(r.data))
           /\ \E listed \in SUBSET Range(order) :
                /\ r.data = NameList(SelectSeq(order, LAMBDA e : e \in listed))
                /\ \A e \in listed :
                     e.d_type = "DT_REG" => IsFile(f, dir \o <<e.d_name>>)
\* A directory of eleven files with names of 200 characters, and the entries
\* readdir returns for it.
LongName(i) == [j \in 1..200 |-> IF j = i THEN "b" ELSE "a"]
CrowdedDir(f, tier) ==
  [f EXCEPT !.files =
     [q \in DOMAIN @ \cup {Root(tier) \o <<LongName(i)>> : i \in 1..11} |->
        IF q \in DOMAIN @ THEN @[q] ELSE <<>>]]
CrowdedOrder == [i \in 1..11 |-> [d_name |-> LongName(i), d_type |-> "DT_REG"]]

\* C26: a backend LIST of a directory answers with names of regular,
\* non-hidden files immediately inside it and nothing else, each followed
\* by a newline, after a line with the byte length of that list; a LIST of a
\* directory that does not exist answers with the size line 0.
C26_ListsRegularFiles ==
  /\ \A tier \in Backends, path \in {<<>>, docs, docs \o <<SLASH>> \o sub, sub} :
       \A order \in Orders(readdir(fs, ListDir(tier, path))) :
         ListsRegularFiles(fs, tier, path, order)
  /\ Range(CrowdedOrder) \subseteq readdir(CrowdedDir(fs, S3), ListDir(S3, <<>>))
       => ListsRegularFiles(CrowdedDir(fs, S3), S3, <<>>, CrowdedOrder)

\* The files of class ext stored in the tier that owns the class, at any depth.
ClassFiles(f, ext) ==
  {p \in DOMAIN f.files :
     UnderRoot(CHOOSE t \in Tiers : TierExt(t) = ext, p) /\ ExtOf(p) = ext}

Held(trace, k) ==
  Cardinality({i \in 1..k : trace[i].call = "socket"})
    - Cardinality({i \in 1..k : trace[i].call = "close"})
\* The commands sent in a trace.
Sent(trace) == SelectSeq(trace, LAMBDA e : e.call = "send")
\* At most one connection is held at any time and none at the end, every
\* command is sent on a connection to its backend opened for it, and a close
\* lies between any two commands.
ShortLived(trace) ==
  /\ \A k \in 1..Len(trace) : Held(trace, k) \in {0, 1}
  /\ Held(trace, Len(trace)) = 0
  /\ \A i \in 1..Len(trace) :
       trace[i].call = "send" =>
         /\ i > 2 /\ trace[i - 1].call = "connect" /\ trace[i - 2].call = "socket"
         /\ trace[i - 1].to = trace[i].to /\ trace[i - 2].to = trace[i].to
         /\ i < Len(trace) /\ trace[i + 1].call = "close" /\ trace[i + 1].to = trace[i].to
ListFaults == [1..3 -> {"none", "connect", "header", "ack"}]

\* C28: the socket calls of every handler of the dispatcher are short-lived
\* connections: a new connection for each backend request, one command on
\* it, closed on every path before the handler returns, so that a worker
\* holds at most one backend connection at a time and none between client
\* commands; a request that reaches its backend is one command of the verb
\* of the handler.
C28_ShortLived ==
  /\ \A u \in Uploads, payload \in {<<"x">>}, fault \in UploadFaults \cup {"none"} :
       LET t == upload_sockets(fs, u[1], u[2], Len(payload), payload, fault)
           r == handle_upload(fs, u[1], u[2], Len(payload), payload, payload, fault)
       IN  /\ ShortLived(t)
           /\ [i \in 1..Len(Sent(t)) |-> [to |-> Sent(t)[i].to, verb |-> Sent(t)[i].verb]]
                = [i \in 1..Len(r.requests) |->
                     [to |-> r.requests[i].to, verb |-> r.requests[i].verb]]
  /\ \A p \in VPaths, fault \in {"none", "connect", "header", "ack", "relay"} :
       /\ ShortLived(download_sockets(p, fault))
       /\ ShortLived(remove_sockets(p, fault))
       /\ Len(Sent(download_sockets(p, fault))) <= 1
       /\ Len(Sent(remove_sockets(p, fault))) <= 1
       /\ \A e \in Range(Sent(download_sockets(p, fault))) : e.verb = "GET"
       /\ \A e \in Range(Sent(remove_sockets(p, fault))) : e.verb = "DEL"
  /\ \A fileType \in FileTypes, fault \in {"none", "connect", "header", "ack", "relay"} :
       /\ ShortLived(downltar_sockets(fileType, fault))
       /\ Len(Sent(downltar_sockets(fileType, fault))) <= 1
       /\ \A e \in Range(Sent(downltar_sockets(fileType, fault))) : e.verb = "TAR"
  /\ \A faults3 \in ListFaults :
       /\ ShortLived(dispfnames_sockets(faults3))
       /\ \A e \in Range(Sent(dispfnames_sockets(faults3))) : e.verb = "LIST"
\* An uploadf of a.pdf has been forwarded and acknowledged: one connection to
\* S2 was opened, carried the STORE and was closed; a dispfnames now opens
\* and closes three connections one after the other.
C28_Witness ==
  /\ last = [op |-> "uploadf", arg |-> <<a_pdf>>, resp |-> "SUCCESS"]
  /\ Sent(upload_sockets(fs, a_pdf, V_ROOT, 1, <<"x">>, "none"))
       = <<[call |-> "send", to |-> S2, verb |-> "STORE"]>>
  /\ Len(upload_sockets(fs, a_pdf, V_ROOT, 1, <<"x">>, "forward")) = 4
  /\ Len(Sent(dispfnames_sockets([i \in 1..3 |-> "none"]))) = 3

\* C29: for a directory d written with or without a trailing slash, the
\* subPath of the dispatcher is d without the alias; an uploadf of a file
\* into d that succeeds puts it at d/f under the root of its tier (the path
\* sent to the backend being d/f), and then a downlf of d/f returns its
\* bytes, a dispfnames of d, with or without a trailing slash, lists it, and a
\* removef of d/f removes it.
C29_SamePlace ==
  \A d \in {<<>>, docs, docs \o <<SLASH>> \o sub}, name \in {a_c, a_pdf, notes_txt},
     slash \in {<<>>, <<SLASH>>} :
    LET dest == Join(V_ROOT, d) \o slash
        path == Join(V_ROOT, d) \o <<SLASH>> \o name
        rel == IF d # <<>> THEN d \o <<SLASH>> \o name ELSE name
        at == Physical(HomeTier(<<name>>), Lookup(d) \o <<name>>)
        up == handle_upload(fs, name, dest, 1, <<"x">>, <<"x">>, "none")
        rm == handle_remove(up.fs, path, "none")
    IN  /\ SubPath(dest) = d
        /\ SubPath(path) = rel
        /\ up.ret = 0 =>
             /\ IsFile(up.fs, at) /\ up.fs.files[at] = <<"x">>
             /\ \A r \in Range(up.requests) : r.path = rel
             /\ handle_download(up.fs, path, "none") = SizedReply(<<"x">>)
             /\ \A end \in {<<>>, <<SLASH>>} :
                  \A orders \in ScanOrders(up.fs, Join(V_ROOT, d) \o end) :
                    name \in Range(Tokens(handle_dispfnames(up.fs, Join(V_ROOT, d) \o end,
                                                             Backends, orders).data, NL))
             /\ rm.ret = 0 /\ ~IsFile(rm.fs, at)
\* a.c has been uploaded into "~S1/docs/", written with the trailing slash:
\* it is at docs/a.c under ~/S1 and a downlf of ~S1/docs/a.c returns it.
C29_Witness ==
  /\ last = [op |-> "uploadf", arg |-> <<docs, a_c>>, resp |-> "SUCCESS"]
  /\ IsFile(fs, Physical(S1, <<docs, a_c>>))
  /\ handle_download(fs, V_DOCS \o <<SLASH>> \o a_c, "none")
       = SizedReply(fs.files[Physical(S1, <<docs, a_c>>)])
  /\ \E orders \in ScanOrders(fs, V_DOCS) :
       a_c \in Range(Tokens(handle_dispfnames(fs, V_DOCS, Backends, orders).data, NL))

\* One ERROR line and nothing after it.
OneErrorLine(r) == HasPrefix(r.line, L_ERROR) /\ r.data = <<>>
\* The connection goes on: a downlf sent next on it is answered, with one response.
StillServing(f) ==
  \A o \in prcclient(f, Line(W_downlf, V_DOCS \o <<SLASH>> \o a_c), <<>>) : Len(o.out) = 1

\* C30: with the owning backend unreachable, an uploadf that has received its
\* payload deletes its local copy, stores nothing and answers with one ERROR
\* line, having consumed the whole payload; downlf, removef and downltar
\* answer with one ERROR line and change nothing; a dispfnames answers with
\* the groups of the dispatcher and of the backends it reaches, the groups
\* of the others being empty; the next command of the connection is served.
C30_BackendUnreachable ==
  /\ \A u \in Uploads, payload \in Payloads :
       LET r == handle_upload(fs, u[1], u[2], Len(payload), payload, payload, "connect")
           local == Lookup(Join(BasePath(S1), SubPath(u[2])) \o <<SLASH>> \o u[1])
       IN  upload_sockets(fs, u[1], u[2], Len(payload), payload, "connect") # <<>> =>
             /\ r.ret = -1 /\ OneErrorLine(Reply(UploadAnswer(r.ret)))
             /\ ~IsFile(r.fs, local)
             /\ \A t \in Backends : TierPart(r.fs, t) = TierPart(fs, t)
             /\ r.consumed = Len(payload)
             /\ StillServing(r.fs)
  /\ \A p \in VPaths :
       download_sockets(p, "connect") # <<>> =>
         /\ OneErrorLine(handle_download(fs, p, "connect"))
         /\ handle_remove(fs, p, "connect").fs = fs
         /\ OneErrorLine(Reply(RemoveAnswer(handle_remove(fs, p, "connect").ret)))
  /\ \A fileType \in {EXT_PDF, EXT_TXT}, toolStatus \in {0, 123} :
       \A order \in Orders(ClassFiles(fs, fileType)) :
         OneErrorLine(handle_downltar(fs, fileType, "connect", order, toolStatus))
  /\ \A d \in VDirs, up \in SUBSET Backends :
       \A orders \in ScanOrders(fs, d) :
         LET all == Groups(fs, d, Backends, orders)
             part == Groups(fs, d, up, orders)
             r == handle_dispfnames(fs, d, up, orders)
         IN  /\ part[1] = all[1]
             /\ part[2] = IF S2 \in up THEN all[2] ELSE <<>>
             /\ part[3] = IF S3 \in up THEN all[3] ELSE <<>>
             /\ part[4] = IF S4 \in up THEN all[4] ELSE <<>>
             /\ ~HasPrefix(r.line, L_ERROR)
             /\ r = IF Output(part[1] \o part[2] \o part[3] \o part[4], <<>>) = <<>>
                    THEN Reply(L_NO_FILES)
                    ELSE SizedReply(Output(part[1] \o part[2] \o part[3] \o part[4], <<>>))
  /\ StillServing(fs)
\* A command has been answered with ERROR because its backend could not be
\* reached, while a.pdf is stored in S2: a downlf of it with S2 unreachable
\* is answered with one ERROR line, and a dispfnames without S2 no longer
\* lists it.
C30_Witness ==
  /\ faults = 1 /\ last.resp = "ERROR"
  /\ IsFile(fs, Physical(S2, <<a_pdf>>))
  /\ OneErrorLine(handle_download(fs, V_ROOT \o <<SLASH>> \o a_pdf, "connect"))
  /\ \A orders \in ScanOrders(fs, V_ROOT) :
       /\ a_pdf \in Range(Groups(fs, V_ROOT, Backends, orders)[2])
       /\ Groups(fs, V_ROOT, {S3, S4}, orders)[2] = <<>>

\* The file name and the directory of a virtual file path.
NameOf(path) == SubSeq(path, LastIndexOf(path, SLASH) + 1, Len(path))
\* The ways the uploadf of a payload fails on its way: the client disconnects
\* inside the payload, the connection to the backend fails inside the
\* content, the backend cannot open its file.
FailingUploads(payload) ==
  {<<delivered, <<>>, "none">> : delivered \in Cuts(payload)}
    \cup {<<payload, arrived, "forward">> : arrived \in Cuts(payload)}
    \cup {<<payload, payload, "disk">>}

\* C33: when a file acknowledged with SUCCESS is stored at a path and
\* retrievable, an uploadf to the same path that fails (the client
\* disconnects inside the payload, or the backend STORE fails) leaves that
\* content retrievable by downlf.
C33_FailedUploadKeepsOld ==
  \A p \in VPaths, payload \in Payloads :
    (/\ VLoc(p) \in DOMAIN acked
     /\ handle_download(fs, p, "none") = SizedReply(acked[VLoc(p)])) =>
      \A c \in FailingUploads(payload) :
        LET r == handle_upload(fs, NameOf(p), CutAtLastSlash(p), Len(payload),
                               c[1], c[2], c[3])
        IN  r.ret # 0 => handle_download(r.fs, p, "none") = SizedReply(acked[VLoc(p)])

\* C34: a DEL in S2 or S3 that answers ERROR leaves the files and the
\* directories as they were before it.
C34_FailedDelChangesNothing ==
  \A tier \in {S2, S3}, path \in RelPaths :
    LET r == DEL(fs, tier, path)
    IN  r.sent[1] = L_ERROR => r.fs = fs

\* C35: an uploadf that answers ERROR, whatever made it fail, leaves the
\* directories of the dispatcher and of the backends as they were before it.
C35_FailedUploadLeavesNoDirs ==
  \A u \in Uploads, payload \in Payloads :
    \A c \in UploadFailures(payload) \cup {<<payload, payload, "none">>} :
      LET r == handle_upload(fs, u[1], u[2], Len(payload), c[1], c[2], c[3])
      IN  r.ret # 0 => r.fs.dirs = fs.dirs

\* The tier roots are directories of f, and f has the directories outside
\* them that g has.
RootsStand(f, g) ==
  /\ \A t \in Tiers : IsDir(f, Root(t))
  /\ \A d \in g.dirs : (\A t \in Tiers : d # Root(t) /\ ~UnderRoot(t, d)) => d \in f.dirs
\* Paths that name a file directly in the tier root (one of them with the
\* slash doubled), a file that does not exist, and the root itself.
RootPaths ==
  {V_ROOT \o <<SLASH>> \o a_pdf, V_ROOT \o <<SLASH, SLASH>> \o a_pdf,
   V_ROOT \o <<SLASH>> \o notes_txt, V_ROOT \o <<SLASH>> \o a_c,
   V_ROOT, V_ROOT \o <<SLASH>>}

\* C36: no uploadf or removef, and no STORE or DEL at a backend, removes a
\* tier root or a directory outside the tier roots, whatever the path names:
\* a file directly in a tier root, a file that does not exist, or nothing
\* after the alias.
C36_RootsStand ==
  /\ \A u \in Uploads \cup {<<a_pdf, V_ROOT \o <<SLASH>>>>, <<a_c, V_ROOT>>}, payload \in Payloads :
       \A c \in UploadFailures(payload) \cup {<<payload, payload, "none">>} :
         RootsStand(handle_upload(fs, u[1], u[2], Len(payload), c[1], c[2], c[3]).fs, fs)
  /\ \A p \in VPaths \cup RootPaths, fault \in {"none", "connect", "ack"} :
       RootsStand(handle_remove(fs, p, fault).fs, fs)
  /\ \A tier \in {S2, S3}, path \in RelPaths \cup {SubPath(p) : p \in RootPaths} :
       RootsStand(DEL(fs, tier, path).fs, fs)

\* How often a name is listed by a dispfnames answer.
Listed(name, r) == Len(SelectSeq(Tokens(r.data, NL), LAMBDA n : n = name))
\* An uploadf to path p, which holds a file, that succeeds has replaced it: a
\* downlf returns the new payload with its size and a dispfnames of the
\* directory lists the name once.
Replaces(p) ==
  \A payload \in Payloads :
    LET r == handle_upload(fs, NameOf(p), CutAtLastSlash(p), Len(payload),
                           payload, payload, "none")
    IN  (Stored(fs, p) /\ r.ret = 0) =>
          /\ handle_download(r.fs, p, "none") = SizedReply(payload)
          /\ \A orders \in ScanOrders(r.fs, CutAtLastSlash(p)) :
               Listed(NameOf(p),
                      handle_dispfnames(r.fs, CutAtLastSlash(p), Backends, orders)) = 1

\* C37: an uploadf to a virtual path that already holds a file replaces it,
\* for a file of any class: after the SUCCESS a downlf returns the second
\* payload with its size and a dispfnames of the directory lists the file
\* name exactly once.
C37_SecondUploadReplaces == \A p \in VPaths : Replaces(p)

\* C38: a removef of path p, whether it succeeds or fails, changes no file
\* other than the one at p in the tier of its class: every other file of
\* every tier is there afterwards with its content, and no file is new.
C38_RemoveTouchesOneFile ==
  \A p \in VPaths \cup {V_ROOT \o <<SLASH, SLASH>> \o a_pdf, V_ROOT \o <<SLASH>> \o notes_txt},
     fault \in {"none", "connect", "ack"} :
    LET r == handle_remove(fs, p, fault)
        at == Physical(HomeTier(VLoc(p)), VLoc(p))
    IN  /\ DOMAIN r.fs.files \subseteq DOMAIN fs.files
        /\ \A q \in DOMAIN fs.files \ {at} :
             q \in DOMAIN r.fs.files /\ r.fs.files[q] = fs.files[q]
\* A removef of a.c in docs has succeeded and .b.c, stored in the same
\* directory, is still there with its byte.
C38_Witness ==
  /\ last = [op |-> "removef", arg |-> <<docs, a_c>>, resp |-> "SUCCESS"]
  /\ IsFile(fs, Physical(S1, <<docs, hidden_c>>))
  /\ fs.files[Physical(S1, <<docs, hidden_c>>)] = <<"x">>
  /\ ~IsFile(fs, Physical(S1, <<docs, a_c>>))

(***************************************************************************)
(* Concurrent uploads of one forwarded file.  Every client of the          *)
(* dispatcher is served by a process of its own and every connection of a  *)
(* backend by a thread of its own, so the system calls of two uploadf      *)
(* commands to the same virtual path, and of the STOREs they forward,      *)
(* interleave.  Both uploads go to the root of the namespace: the          *)
(* directory of the local copy and of the backend file is the tier root,   *)
(* which is there.  pc is the position of the dispatcher's worker, spc     *)
(* that of the backend thread serving its connection, sent the content     *)
(* bytes put on that connection, closed whether the dispatcher has closed  *)
(* it, stored the bytes the backend thread wrote for it.                   *)
(***************************************************************************)
B1 == <<"x">>
B2 == <<"y">>
ForwardPayloads == {<<>>, B1, B2}
ForwardNames == {a_pdf, notes_txt}

\* A stream opened by fopen(str, "wb") is at offset 0: what is written
\* through it replaces the bytes the file has there, whoever wrote them.
\* Once the path is unlinked the bytes go to a file no path names.
fwrite_at_start(f, str, data) ==
  LET p == Lookup(str)
  IN  IF IsFile(f, p)
      THEN WithFile(f, p, data \o SubSeq(f.files[p], Len(data) + 1, Len(f.files[p])))
      ELSE f

ForwardWorker(filename, payload) ==
  [verb |-> "uploadf", tier |-> UploadServer(strrchr(filename, DOT)),
   fullPath |-> BasePath(S1) \o <<SLASH>> \o filename,
   remote |-> BasePath(UploadServer(strrchr(filename, DOT))) \o <<SLASH>> \o filename,
   payload |-> payload, pc |-> "fopen", sent |-> <<>>, closed |-> FALSE,
   spc |-> "idle", stored |-> <<>>, resp |-> "none"]

ForwardInit ==
  /\ fs = Init_fs
  /\ \E filename \in ForwardNames, b1 \in ForwardPayloads, b2 \in ForwardPayloads :
       workers = <<ForwardWorker(filename, b1), ForwardWorker(filename, b2)>>
  /\ acked = <<>>
  /\ last = [op |-> "none", arg |-> <<>>, resp |-> "TEXT"]
  /\ faults = 0

\* handle_upload: fopen(fullPath, "wb") of the local copy.
ForwardFopen(w) ==
  LET me == workers[w]
  IN  /\ me.pc = "fopen"
      /\ IF fopen_wb_ok(fs, me.fullPath)
         THEN fs' = fopen_wb(fs, me.fullPath) /\ Moves(w, [me EXCEPT !.pc = "recv"])
         ELSE UNCHANGED fs /\ Answers(w, "ERROR")

\* handle_upload: the declared bytes are received from the client and
\* written through the stream, which is closed.
ForwardRecv(w) ==
  LET me == workers[w]
  IN  /\ me.pc = "recv"
      /\ fs' = fwrite_at_start(fs, me.fullPath, me.payload)
      /\ Moves(w, [me EXCEPT !.pc = "header"])

\* handle_upload: connect to the backend and send "STORE <path> <size>"
\* with the size the client declared; the backend starts a thread.
ForwardHeader(w) ==
  LET me == workers[w]
  IN  /\ me.pc = "header"
      /\ UNCHANGED fs
      /\ Moves(w, [me EXCEPT !.pc = "content", !.spc = "fopen"])

\* handle_upload: the local copy is opened again and whatever it holds now
\* is sent to the backend; when it cannot be opened the connection is
\* closed and the upload has failed.
ForwardContent(w) ==
  LET me == workers[w]
  IN  /\ me.pc = "content"
      /\ IF fopen_rb_ok(fs, me.fullPath)
         THEN /\ UNCHANGED fs
              /\ Moves(w, [me EXCEPT !.pc = "ack", !.sent = fread(fs, me.fullPath)])
         ELSE /\ fs' = remove(fs, me.fullPath)
              /\ Moves(w, [me EXCEPT !.pc = "done", !.resp = "ERROR", !.closed = TRUE])

\* STORE in the backend thread: the directories of the path are made and
\* the file is opened with fopen(fullPath, "wb").
BackendFopen(w) ==
  LET me == workers[w]
      g == MakeSubdirs(fs, CutAtLastSlash(me.remote), 2)
  IN  /\ me.spc = "fopen"
      /\ IF fopen_wb_ok(g, me.remote)
         THEN fs' = fopen_wb(g, me.remote) /\ Moves(w, [me EXCEPT !.spc = "recv"])
         ELSE fs' = g /\ Moves(w, [me EXCEPT !.spc = "ERROR"])

\* STORE in the backend thread: recv returns once the declared bytes are
\* there or the connection is closed, and blocks until then.  All declared
\* bytes: they are written and the answer is SUCCESS.  Fewer: what came is
\* written, the file is removed and the answer is ERROR.
BackendRecv(w) ==
  LET me == workers[w]
      fileSize == Len(me.payload)
      taken == SubSeq(me.sent, 1, Min(fileSize, Len(me.sent)))
  IN  /\ me.spc = "recv"
      /\ Len(me.sent) >= fileSize \/ me.closed
      /\ IF Len(taken) = fileSize
         THEN /\ fs' = fwrite_at_start(fs, me.remote, taken)
              /\ Moves(w, [me EXCEPT !.spc = "SUCCESS", !.stored = taken])
         ELSE /\ fs' = remove(fwrite_at_start(fs, me.remote, taken), me.remote)
              /\ Moves(w, [me EXCEPT !.spc = "ERROR", !.stored = taken])

\* handle_upload: the answer of the backend is read, the connection closed
\* and the local copy removed; the client is answered by what the backend
\* said.
ForwardAck(w) ==
  LET me == workers[w]
  IN  /\ me.pc = "ack"
      /\ me.spc \in {"SUCCESS", "ERROR"}
      /\ fs' = remove(fs, me.fullPath)
      /\ Moves(w, [me EXCEPT !.pc = "done", !.resp = me.spc, !.closed = TRUE])

ForwardStep(w) ==
  \/ ForwardFopen(w)
  \/ ForwardRecv(w)
  \/ ForwardHeader(w)
  \/ ForwardContent(w)
  \/ BackendFopen(w)
  \/ BackendRecv(w)
  \/ ForwardAck(w)

ForwardNext ==
  \/ \E w \in Workers : ForwardFopen(w)
  \/ \E w \in Workers : ForwardRecv(w)
  \/ \E w \in Workers : ForwardHeader(w)
  \/ \E w \in Workers : ForwardContent(w)
  \/ \E w \in Workers : BackendFopen(w)
  \/ \E w \in Workers : BackendRecv(w)
  \/ \E w \in Workers : ForwardAck(w)

Forward == ForwardInit /\ [][ForwardNext]_vars

\* Every process and every thread that can take a step is scheduled in the
\* end.
FairForward == Forward /\ \A w \in Workers : WF_vars(ForwardStep(w))

\* C31: every uploadf whose payload was delivered in full is answered by
\* SUCCESS or ERROR in the end, also when another client uploads to the
\* same virtual path at the same time: no worker waits for ever.
C31_UploadAnswered ==
  \A w \in Workers :
    (workers[w].pc = "header") ~> (workers[w].pc = "done" /\ workers[w].resp \in {"SUCCESS", "ERROR"})

\* C32: of two concurrent uploadf commands to one virtual path of a
\* forwarded class, each that has answered SUCCESS had its own payload
\* stored by the backend, and once both have finished and the backend
\* threads have come to rest, the backend file holds exactly the payload of
\* one of them whenever at least one has answered SUCCESS.
AtRest == \A w \in Workers : workers[w].pc = "done" /\ workers[w].spc \in {"idle", "SUCCESS", "ERROR"}
C32_OneOfTheTwo ==
  /\ \A w \in Workers :
       (workers[w].pc = "done" /\ workers[w].resp = "SUCCESS") =>
         workers[w].stored = workers[w].payload
  /\ (AtRest /\ \E w \in Workers : workers[w].resp = "SUCCESS") =>
       /\ IsFile(fs, Lookup(workers[1].remote))
       /\ fs.files[Lookup(workers[1].remote)] \in {workers[1].payload, workers[2].payload}

====
